---- MODULE Spec2Model ----
(***************************************************************************)
(* Canon R5 driver suite: the PTP transaction engine and session manager   *)
(* (PTP protocol implementation), the volume manager and the object store  *)
(* (canon-r5-storage.c) and the statfs entry of the filesystem bridge      *)
(* (canon-r5-filesystem.c).                                                *)
(*                                                                         *)
(* Threads of control are modelled by th: each thread is either idle, done *)
(* with a call (its results kept in its record) or at a position pc inside *)
(* a call.  A kernel mutex is a variable holding 0 (free) or its owner.    *)
(* Return values keep the kernel's names: "OK" is 0, "ENOTCONN" is         *)
(* -ENOTCONN and so on.  Byte quantities of a volume are carried in KiB.   *)
(*                                                                         *)
(* Spec runs the engine step by step under concurrent callers.  SpecVol    *)
(* runs the volume operations, each from call to return in one step (its   *)
(* body is under the storage lock), last holding the most recent return.   *)
(* SpecEvent runs the card-event work item step by step beside mount and   *)
(* unmount.  SpecCache runs the object store: tree, recency list, cleanup. *)
(* SpecFs runs the object access calls (fetch of an object's information,  *)
(* lookup by handle, name lookup, read, unlink, mkdir and rmdir of the     *)
(* filesystem bridge), fs                                                  *)
(* holding the most recent return.  SpecFile runs write_file and read_file *)
(* of the object it returned, SpecDir a directory listing through repeated *)
(* canon_r5_fs_readdir calls, SpecIndex the index under indexing, caching  *)
(* and deletion.                                                           *)
(*                                                                         *)
(* cc holds the calls that are followed statement by statement, each with  *)
(* its position pc and its registers, the spin lock of the object store,   *)
(* the operation statistics and the inode references.  SpecLock runs       *)
(* statfs beside mount and unmount, SpecSweep the cleanup pass beside      *)
(* delete_file, SpecDetach the teardown of the storage layer beside the    *)
(* card-event work item, SpecRead read_file on a cached and on an uncached *)
(* object, SpecProt write_file on a write-protected card, SpecRef the      *)
(* reference count of an object under inode creation, inode destruction    *)
(* and delete_file, SpecStats the statistics under write, reset and query  *)
(* beside whole canon_r5_ptp_command calls, SpecNode one inode under read, *)
(* unlink and write, SpecSession open_session and close_session by several *)
(* threads with the device's side of the session, SpecCalls the calls that *)
(* take the engine lock and the storage lock, mutex by mutex.              *)
(***************************************************************************)
EXTENDS Integers, Sequences, FiniteSets

VARIABLES ptp, th, issued, storage, ev, last, after_scan, fsi, now, fs, cc

vars == <<ptp, th, issued, storage, ev, last, after_scan, fsi, now, fs, cc>>

\* What the transaction engine's stepwise actions leave alone, what the
\* volume manager's actions leave alone, and what the object store's leave
\* alone.
nonPtpVars == <<storage, ev, last, after_scan, fsi, now, fs, cc>>

nonVolVars == <<th, issued, fsi, now, fs, cc>>

nonCacheVars == <<th, issued, storage, ev, last, after_scan, fs, cc>>

\* What the object access calls leave alone.
nonFsVars == <<th, issued, storage, ev, last, after_scan, fsi, now, cc>>

(* ------------------------------ bounds --------------------------------- *)

\* Threads of control calling into the driver concurrently.
NumThreads == 2

\* Width of the transaction counter in the model; the code's counter is a
\* u32 (32 bits) and wraps the same way.
TransIdBits == 2

\* At most this many transaction ids are issued in a behaviour.
MaxIssued == 4

\* Object handles the device hands out.
MaxHandles == 2

\* The clock (ktime_get) runs from 0 to this value.
MaxTime == 2

\* Payloads are cached only while the cached-bytes counter stays within this.
MaxCacheTotal == 4

\* The longest content written to an object, in blocks of 512 bytes.
MaxLen == 3

\* The furthest directory position a listing is followed to.
MaxPos == 6

\* The highest value a counter of the operation statistics is followed to.
MaxStat == 2

\* The longest cached payload, in blocks of 512 bytes.
MaxPayload == 2

\* The most inodes bound to one object at a time.
MaxNodes == 2

(* --------------------------- program constants ------------------------- *)

PTP_CONTAINER_COMMAND == 1
PTP_CONTAINER_DATA == 2
PTP_CONTAINER_RESPONSE == 3
PTP_OP_GET_DEVICE_INFO == 4097
PTP_OP_OPEN_SESSION == 4098
PTP_OP_CLOSE_SESSION == 4099
PTP_RC_OK == 8193
PTP_RC_GENERAL_ERROR == 8194
PTP_RC_STORAGE_FULL == 8204
PTP_RC_DEVICE_BUSY == 8217

\* sizeof(struct ptp_container) - sizeof(params): length, type, code, trans_id.
PtpHeaderLen == 12

Threads == 1..NumThreads

RECURSIVE Pow2(_)
Pow2(n) == IF n = 0 THEN 1 ELSE 2 * Pow2(n - 1)

\* A counter that steps by two.
TransIdSkip(id) == (id + 2) % Pow2(TransIdBits)

\* u32 arithmetic of dev->ptp.transaction_id++ at the model's width.
TransIdNext(id) == (id + 1) % Pow2(TransIdBits)

\* Errors the transport (usb_bulk_msg) reports: I/O failure and timeout.
TransportErrors == {"EIO", "ETIMEDOUT"}

\* Operation codes a direct caller of canon_r5_ptp_command passes here; the
\* close-session code is sent by canon_r5_ptp_close_session.
OpCodes == {PTP_OP_GET_DEVICE_INFO, PTP_OP_OPEN_SESSION}

\* What a bulk receive can deliver for a command sent with transaction id
\* tid: a container cut short of its header, or a full header of any type,
\* transaction id and code.
Responses(tid) == {[len |-> 8, type |-> 0, trans_id |-> 0, code |-> 0]} \cup [len : {PtpHeaderLen}, type : {PTP_CONTAINER_DATA, PTP_CONTAINER_RESPONSE}, trans_id : {tid, TransIdNext(tid)}, code : {PTP_RC_OK, PTP_RC_GENERAL_ERROR, PTP_RC_STORAGE_FULL, PTP_RC_DEVICE_BUSY}]

(* --------------------- volume records and constants -------------------- *)

CANON_R5_MAX_STORAGE_CARDS == 2

CANON_R5_STORAGE_STATUS_EMPTY == 0
CANON_R5_STORAGE_STATUS_INSERTED == 1
CANON_R5_STORAGE_STATUS_MOUNTED == 2
CANON_R5_STORAGE_STATUS_ERROR == 3

CANON_R5_STORAGE_STATUS_WRITE_PROTECTED == 4

PTP_OP_GET_STORAGE_IDS == 4100
PTP_OP_GET_STORAGE_INFO == 4101
PTP_OP_GET_OBJECT_HANDLES == 4103
PTP_OP_GET_OBJECT_INFO == 4104
PTP_OP_GET_OBJECT == 4105
PTP_OP_DELETE_OBJECT == 4106

\* The literal 0x100F of canon_r5_ptp_format_storage.
PtpOpFormatStore == 4111

\* The operation code canon_r5_ptp_send_object_data sends (0x100C).
PtpOpSendObjectData == 4108

\* PAGE_SIZE (4096 bytes) in KiB.
PAGE_SIZE == 4096 \div 1024

canon_r5_storage_slot_valid(slot) == slot >= 0 /\ slot < CANON_R5_MAX_STORAGE_CARDS

ValidSlots == 0..(CANON_R5_MAX_STORAGE_CARDS - 1)

\* Slot arguments a caller may pass: the valid ones and one beyond each end.
Slots == (0 - 1)..CANON_R5_MAX_STORAGE_CARDS

\* Statuses a card event may report.
EventStatuses == CANON_R5_STORAGE_STATUS_EMPTY..CANON_R5_STORAGE_STATUS_ERROR

\* The owner id under which the card-event work item holds the storage lock.
WorkId == NumThreads + 1

\* The storage id the driver uses for a slot.
StorageId(slot) == IF slot = 0 THEN 65537 ELSE 131073

\* A card record after memset(.., 0, ..): every field zero, the status
\* thereby EMPTY and the slot index 0.
ZeroCard == [slot_id |-> 0, status |-> 0, total_capacity |-> 0, free_space |-> 0]

\* The record canon_r5_ptp_get_storage_info writes on a successful reply.
ScannedCard(storage_id) == [ZeroCard EXCEPT !.slot_id = IF storage_id = 65537 THEN 0 ELSE 1, !.status = CANON_R5_STORAGE_STATUS_MOUNTED, !.total_capacity = 128 * 1024 * 1024, !.free_space = 64 * 1024 * 1024]

\* The KUnit fixture's card (inserted, 128 GB, 64 GB free), as a test
\* assigns it to a slot of the storage device.
TestCard(slot) == [ZeroCard EXCEPT !.slot_id = slot, !.status = CANON_R5_STORAGE_STATUS_INSERTED, !.total_capacity = 128 * 1024 * 1024, !.free_space = 64 * 1024 * 1024]

\* canon_r5_storage_init before its scan: no active card, every slot empty
\* and carrying its index.
StorageInit == [lock |-> 0, active_card |-> 0 - 1, cards |-> [i \in ValidSlots |-> [ZeroCard EXCEPT !.slot_id = i, !.status = CANON_R5_STORAGE_STATUS_EMPTY]]]

\* The card-event work item: not queued.
IdleWork == [pc |-> "idle", slot |-> 0, status |-> 0]

\* The most recent return of a volume operation: which operation, on which
\* slot, its return value (a positive return is "OK" with the count), the
\* number of canon_r5_ptp_command calls it made, what statfs stored, and
\* whether the return before it was the same, of the same operation on the
\* same slot.
NoCall == [op |-> "none", slot |-> 0, ret |-> "none", count |-> 0, cmds |-> 0, f_blocks |-> 0, f_bfree |-> 0, again |-> FALSE]

Returned(op, slot, ret, count, cmds) == [NoCall EXCEPT !.op = op, !.slot = slot, !.ret = ret, !.count = count, !.cmds = cmds, !.again = (last.op = op /\ last.slot = slot /\ last.ret = ret)]

\* after_scan follows the sequence "a scan has reported two volumes (both
\* records read), then mount_card(0) is called": "scan2" after the scan,
\* "mount0_ok" or "mount0_fail" after the mount; statfs leaves it and any
\* other operation sets it back to "no".
AfterMount(a, slot, ret) == IF slot = 0 /\ a = "scan2" THEN (IF ret = "OK" THEN "mount0_ok" ELSE "mount0_fail") ELSE "no"

(* --------------------- object store records and constants -------------- *)

\* Byte counts of the object store are carried in units of 32 MiB: the cache
\* budget of 64 MiB is 2, an object's content 1 or 2.
CANON_R5_CACHE_MAX_SIZE == 2

\* The staleness window: one tick of the model's clock.
CANON_R5_CACHE_TIMEOUT == 1

Handles == 1..MaxHandles

FileSizes == {1, 2}

Times == 0..MaxTime

\* A file object that is not cached.
NoObject == [file_size |-> 0, modification_time |-> 0, cached |-> FALSE, has_data |-> FALSE, cache_size |-> 0, ref_count |-> 0]

\* canon_r5_fs_fill_super: empty tree, empty recency list, nothing cached.
FsInfoInit == [file_tree |-> {}, lru_list |-> << >>, total_size |-> 0, max_size |-> CANON_R5_CACHE_MAX_SIZE, obj |-> [h \in Handles |-> NoObject]]

\* The most recent return of an object access call: which call, on which
\* handle (or name), its return value, the object it handed back (0: NULL),
\* whether a name was found in the listing; besides, the handles whose
\* information has been fetched.
FsInit == [op |-> "none", h |-> 0, ret |-> "none", file_obj |-> 0, found |-> FALSE, fetched |-> {}, new_file |-> 0, written |-> << >>, data |-> << >>, pos |-> 0, emitted |-> [h \in Handles |-> 0], reported |-> 0]

\* Contents are carried in blocks of 512 bytes, each block one byte value
\* repeated: a content is a sequence of block values.  The byte values are
\* 0 and the pattern 0x55; canon_r5_ptp_get_object_data's response buffer
\* of 1024 bytes is two blocks.
DataPattern == 85

ByteValues == {0, DataPattern}

ObjectDataBuf == 1024 \div 512

Contents == UNION {[1..n -> ByteValues] : n \in 0..MaxLen}

Min(a, b) == IF a < b THEN a ELSE b

\* Names of a directory's entries: "IMG_%04u.CR3" is carried as its number
\* (the handle's low 16 bits); one more name is in no listing.
Names == 1..(MaxHandles + 1)

(* ------------------ calls in progress, step by step -------------------- *)

\* Calls that the concurrency properties follow statement by statement:
\* statfs is a canon_r5_fs_statfs call (the slot it read and what it has put
\* into its buffer), um a canon_r5_storage_unmount_card call; lock and
\* file_lock are fs_info's mutex and spinlock (0: free), cw the cache
\* cleanup work (its list cursor file and the saved next entry tmp, 0 being
\* the list head), dl a canon_r5_storage_delete_file call, dt a
\* canon_r5_storage_cleanup call (i: the slot its unmount loop is at);
\* nodes counts, per handle, the live inodes whose file_obj is the object;
\* stats is storage->stats, byte counts in blocks of 512 bytes; rd is a
\* canon_r5_storage_read_file call: its arguments while it runs, its return
\* value and the bytes it put in the buffer once it has returned; up is the
\* statistics update at the end of a canon_r5_storage_write_file call (reg:
\* the value it has loaded), snap what canon_r5_storage_get_stats last
\* copied out.
NoRead == [pc |-> "idle", file |-> [cached |-> FALSE, cache_data |-> << >>], size |-> 0, offset |-> 0, ret |-> "none", data |-> << >>]

CcInit == [statfs |-> [pc |-> "idle", slot |-> 0, f_blocks |-> 0, f_bfree |-> 0], um |-> [pc |-> "idle", slot |-> 0], lock |-> 0, file_lock |-> 0, cw |-> [pc |-> "idle", file |-> 0, tmp |-> 0], dl |-> [pc |-> "idle", h |-> 0], dt |-> [pc |-> "idle", i |-> 0], nodes |-> [h \in Handles |-> 0], stats |-> [files_read |-> 0, files_written |-> 0, bytes_read |-> 0, bytes_written |-> 0, cache_hits |-> 0, cache_misses |-> 0], rd |-> NoRead, up |-> [pc |-> "idle", reg |-> 0], snap |-> [files_written |-> 0, bytes_written |-> 0], nd |-> [file_obj |-> 0, freed |-> {}, rd |-> [pc |-> "idle", op |-> "read", obj |-> 0], wr |-> [pc |-> "idle", new_file |-> 0]], ss |-> [camera |-> FALSE, clean |-> TRUE, call |-> [t \in Threads |-> "idle"]], lk |-> [t \in Threads \cup {WorkId} |-> [op |-> "command", pc |-> "idle", left |-> 0]]]

(* ------------------------ canon_r5_device_alloc ------------------------ *)

IdleThread == [op |-> "none", pc |-> "idle", code |-> 0, params |-> << >>, has_data |-> FALSE, trans_id |-> 0, ret |-> "none", rc |-> 0, sends |-> 0, recvs |-> 0]

DeviceAlloc == [lock |-> 0, session_id |-> 0, transaction_id |-> 1, session_open |-> FALSE]

Init == /\ ptp = DeviceAlloc
        /\ th = [t \in Threads |-> IdleThread]
        /\ issued = << >>
        /\ storage = StorageInit
        /\ ev = IdleWork
        /\ last = NoCall
        /\ after_scan = "no"
        /\ fsi = FsInfoInit
        /\ now = 0
        /\ fs = FsInit
        /\ cc = CcInit

(* ------------------------- canon_r5_ptp_command ------------------------ *)

\* A thread may enter a call when it is in none; calls are started only while
\* the ids issued and the calls that may still take one stay under MaxIssued.
CanCall(t) == th[t].pc \in {"idle", "done"} /\ Len(issued) + Cardinality({u \in Threads : th[u].pc \in {"ptp_lock", "ptp_begin"}}) < MaxIssued

\* A gate that lets every operation through.
SessionGateOpen(session_open, code) == TRUE

\* The session gate: every operation but open-session needs an open session.
SessionGate(session_open, code) == session_open \/ code = PTP_OP_OPEN_SESSION

\* Framing checks that leave out the transaction id.
ValidateNoTid(c, tid) == IF c.len < PtpHeaderLen THEN "EPROTO" ELSE IF c.type # PTP_CONTAINER_RESPONSE THEN "EPROTO" ELSE "OK"

\* The framing checks on a received container, in the code's order.
ValidateResponse(c, tid) == IF c.len < PtpHeaderLen THEN "EPROTO" ELSE IF c.type # PTP_CONTAINER_RESPONSE THEN "EPROTO" ELSE IF c.trans_id # tid THEN "EPROTO" ELSE "OK"

\* The record of a thread whose call has returned ret, with rc stored through
\* response_code (0: nothing stored).
Done(ret, rc) == [IdleThread EXCEPT !.pc = "done", !.ret = ret, !.rc = rc]

\* A return that takes every open-session call on to recording the session.
PtpReturnOpenAlways(r, ret, rc) == CASE r.op = "open" -> [IdleThread EXCEPT !.op = "open", !.pc = "open_set"] [] r.op = "close" -> [IdleThread EXCEPT !.op = "close", !.pc = "close_clear", !.ret = ret, !.rc = rc] [] OTHER -> Done(ret, rc)

\* The thread's record when canon_r5_ptp_command returns ret to its caller:
\* the session wrappers go on, a direct caller is done.
PtpReturn(r, ret, rc) == CASE r.op = "open" /\ ret = "OK" -> [IdleThread EXCEPT !.op = "open", !.pc = "open_set"] [] r.op = "close" -> [IdleThread EXCEPT !.op = "close", !.pc = "close_clear", !.ret = ret, !.rc = rc] [] OTHER -> Done(ret, rc)

\* A foreground caller enters canon_r5_ptp_command; a null dev or
\* response_code is refused before the lock is touched.
CmdCall(t, code, has_data, args_ok) ==
    /\ CanCall(t)
    /\ th' = [th EXCEPT ![t] = IF args_ok THEN [IdleThread EXCEPT !.op = "cmd", !.pc = "ptp_lock", !.code = code, !.has_data = has_data] ELSE Done("EINVAL", 0)]
    /\ UNCHANGED <<ptp, issued>>
    /\ UNCHANGED nonPtpVars

\* canon_r5_ptp_command(dev, code, params, param_count, NULL, 0, &rc) with
\* dev and response_code set: the entry check looks at these two pointers
\* only, so the call goes on to the lock whatever param_count is (the
\* container's length field is then 12 + 4 * param_count and at most five
\* parameters are copied).
CmdCallCount(t, code, param_count) ==
    /\ CanCall(t)
    /\ th' = [th EXCEPT ![t] = [IdleThread EXCEPT !.op = "cmd", !.pc = "ptp_lock", !.code = code]]
    /\ UNCHANGED <<ptp, issued>>
    /\ UNCHANGED nonPtpVars

\* A lock taken without waiting for its release.
PtpLockNoWait(t) ==
    /\ th[t].pc = "ptp_lock"
    /\ ptp' = [ptp EXCEPT !.lock = t]
    /\ th' = [th EXCEPT ![t].pc = "ptp_begin"]
    /\ UNCHANGED issued
    /\ UNCHANGED nonPtpVars

\* mutex_lock(&dev->ptp.lock)
PtpLock(t) ==
    /\ th[t].pc = "ptp_lock"
    /\ ptp.lock = 0
    /\ ptp' = [ptp EXCEPT !.lock = t]
    /\ th' = [th EXCEPT ![t].pc = "ptp_begin"]
    /\ UNCHANGED issued
    /\ UNCHANGED nonPtpVars

\* The session check, then trans_id = dev->ptp.transaction_id++ and the
\* command container built around it.
PtpBegin(t) ==
    /\ th[t].pc = "ptp_begin"
    /\ IF ~SessionGate(ptp.session_open, th[t].code)
       THEN /\ ptp' = [ptp EXCEPT !.lock = 0]
            /\ th' = [th EXCEPT ![t] = PtpReturn(th[t], "ENOTCONN", 0)]
            /\ UNCHANGED issued
       ELSE /\ ptp' = [ptp EXCEPT !.transaction_id = TransIdNext(ptp.transaction_id)]
            /\ th' = [th EXCEPT ![t].trans_id = ptp.transaction_id, ![t].pc = "send_cmd"]
            /\ issued' = Append(issued, ptp.transaction_id)
    /\ UNCHANGED nonPtpVars

\* One canon_r5_usb_bulk_send at position pc; r is what the transport
\* returns and next the position after a successful send.
PtpSend(t, pc, next, r) ==
    /\ th[t].pc = pc
    /\ IF r = "OK"
       THEN /\ th' = [th EXCEPT ![t].sends = @ + 1, ![t].pc = next]
            /\ UNCHANGED ptp
       ELSE /\ th' = [th EXCEPT ![t] = PtpReturn([th[t] EXCEPT !.sends = @ + 1], r, 0)]
            /\ ptp' = [ptp EXCEPT !.lock = 0]
    /\ UNCHANGED issued
    /\ UNCHANGED nonPtpVars

PtpSendCmd(t) == \E r \in {"OK"} \cup TransportErrors : PtpSend(t, "send_cmd", IF th[t].has_data THEN "send_data_hdr" ELSE "recv", r)

PtpSendDataHdr(t) == \E r \in {"OK"} \cup TransportErrors : PtpSend(t, "send_data_hdr", "send_data", r)

PtpSendData(t) == \E r \in {"OK"} \cup TransportErrors : PtpSend(t, "send_data", "recv", r)

\* A failed receive reported as a general I/O error.
PtpRecvFailAsEio(t, e) ==
    /\ th[t].pc = "recv"
    /\ th' = [th EXCEPT ![t] = PtpReturn([th[t] EXCEPT !.recvs = @ + 1], "EIO", 0)]
    /\ ptp' = [ptp EXCEPT !.lock = 0]
    /\ UNCHANGED issued
    /\ UNCHANGED nonPtpVars

\* canon_r5_usb_bulk_receive fails with e.
PtpRecvFail(t, e) ==
    /\ th[t].pc = "recv"
    /\ th' = [th EXCEPT ![t] = PtpReturn([th[t] EXCEPT !.recvs = @ + 1], e, 0)]
    /\ ptp' = [ptp EXCEPT !.lock = 0]
    /\ UNCHANGED issued
    /\ UNCHANGED nonPtpVars

\* canon_r5_usb_bulk_receive delivers container c, which is validated; a
\* well-framed response hands its code to the caller.
PtpRecvResp(t, c) ==
    /\ th[t].pc = "recv"
    /\ LET r == [th[t] EXCEPT !.recvs = @ + 1]
           v == ValidateResponse(c, th[t].trans_id)
       IN th' = [th EXCEPT ![t] = IF v # "OK" THEN PtpReturn(r, v, 0) ELSE PtpReturn(r, IF c.code = PTP_RC_OK THEN "OK" ELSE "EIO", c.code)]
    /\ ptp' = [ptp EXCEPT !.lock = 0]
    /\ UNCHANGED issued
    /\ UNCHANGED nonPtpVars

PtpRecv(t) == \/ \E e \in TransportErrors : PtpRecvFail(t, e)
              \/ \E c \in Responses(th[t].trans_id) : PtpRecvResp(t, c)

(* ------------------ canon_r5_ptp_open_session / close ------------------ *)

OpenCall(t) ==
    /\ CanCall(t)
    /\ th' = [th EXCEPT ![t] = [IdleThread EXCEPT !.op = "open", !.pc = "ptp_lock", !.code = PTP_OP_OPEN_SESSION, !.params = <<1>>]]
    /\ UNCHANGED <<ptp, issued>>
    /\ UNCHANGED nonPtpVars

\* After a successful open-session command: the session is recorded under
\* the engine lock, taken anew.
OpenSet(t) ==
    /\ th[t].pc = "open_set"
    /\ ptp.lock = 0
    /\ ptp' = [ptp EXCEPT !.session_id = 1, !.session_open = TRUE]
    /\ th' = [th EXCEPT ![t] = Done("OK", 0)]
    /\ UNCHANGED issued
    /\ UNCHANGED nonPtpVars

\* The entry check of close: under the lock, an already closed session
\* returns 0 at once; otherwise the close-session command follows.
CloseCall(t) ==
    /\ CanCall(t)
    /\ ptp.lock = 0
    /\ th' = [th EXCEPT ![t] = IF ~ptp.session_open THEN Done("OK", 0) ELSE [IdleThread EXCEPT !.op = "close", !.pc = "ptp_lock", !.code = PTP_OP_CLOSE_SESSION]]
    /\ UNCHANGED <<ptp, issued>>
    /\ UNCHANGED nonPtpVars

\* A close that clears the session only when the device confirmed it.
CloseClearOnSuccess(t) ==
    /\ th[t].pc = "close_clear"
    /\ ptp.lock = 0
    /\ ptp' = IF th[t].ret = "OK" THEN [ptp EXCEPT !.session_open = FALSE, !.session_id = 0] ELSE ptp
    /\ th' = [th EXCEPT ![t] = Done(th[t].ret, 0)]
    /\ UNCHANGED issued
    /\ UNCHANGED nonPtpVars

\* Local session state is cleared whatever the command returned.
CloseClear(t) ==
    /\ th[t].pc = "close_clear"
    /\ ptp.lock = 0
    /\ ptp' = [ptp EXCEPT !.session_open = FALSE, !.session_id = 0]
    /\ th' = [th EXCEPT ![t] = Done("OK", 0)]
    /\ UNCHANGED issued
    /\ UNCHANGED nonPtpVars

(* --------- canon_r5_ptp_command as one step of a volume operation ------- *)

\* What a whole canon_r5_ptp_command call can return with engine state p:
\* the gate's refusal, a transport error, or the verdict on the response.
PtpCommandOutcomes(p, code) == IF ~SessionGate(p.session_open, code) THEN {"ENOTCONN"} ELSE TransportErrors \cup {IF ValidateResponse(c, p.transaction_id) # "OK" THEN ValidateResponse(c, p.transaction_id) ELSE IF c.code = PTP_RC_OK THEN "OK" ELSE "EIO" : c \in Responses(p.transaction_id)}

\* The engine state after that call: past the gate one id has been taken.
PtpAfterCommand(p, code) == IF SessionGate(p.session_open, code) THEN [p EXCEPT !.transaction_id = TransIdNext(@)] ELSE p

\* canon_r5_ptp_open_session from call to return.
OpenSession ==
    /\ ptp.lock = 0
    /\ ~ptp.session_open
    /\ \E r \in PtpCommandOutcomes(ptp, PTP_OP_OPEN_SESSION) :
         ptp' = IF r = "OK" THEN [PtpAfterCommand(ptp, PTP_OP_OPEN_SESSION) EXCEPT !.session_id = 1, !.session_open = TRUE] ELSE PtpAfterCommand(ptp, PTP_OP_OPEN_SESSION)
    /\ UNCHANGED <<storage, ev, last, after_scan>>
    /\ UNCHANGED nonVolVars

\* canon_r5_ptp_close_session from call to return on an open session (on a
\* closed one it returns at once and changes nothing).
CloseSession ==
    /\ ptp.lock = 0
    /\ ptp.session_open
    /\ ptp' = [PtpAfterCommand(ptp, PTP_OP_CLOSE_SESSION) EXCEPT !.session_open = FALSE, !.session_id = 0]
    /\ UNCHANGED <<storage, ev, last, after_scan>>
    /\ UNCHANGED nonVolVars

(* --------------------------- volume manager ---------------------------- *)

\* The callers of mount_card and unmount_card: a foreground thread of
\* control ("fg") and the card-event work item ("work"), which calls them
\* for the slot of its event while it holds the storage lock.
Callers == {"fg", "work"}

CalledBy(c, op, slot, has_storage) == c = "fg" \/ (ev.pc = op /\ ev.slot = slot /\ has_storage)

\* The work item after its nested call has returned.
WorkAfter(c) == IF c = "work" THEN [ev EXCEPT !.pc = "unlock"] ELSE ev

\* A mount that does not look at the slot's status.
MountAnyStatus(s, slot) == [ret |-> "OK", s |-> [s EXCEPT !.cards[slot].status = CANON_R5_STORAGE_STATUS_MOUNTED, !.active_card = IF @ < 0 THEN slot ELSE @]]

\* A mount that always takes over the active-slot designation.
MountTakesActive(s, slot) == IF s.cards[slot].status # CANON_R5_STORAGE_STATUS_INSERTED THEN [ret |-> "ENODEV", s |-> s] ELSE [ret |-> "OK", s |-> [s EXCEPT !.cards[slot].status = CANON_R5_STORAGE_STATUS_MOUNTED, !.active_card = slot]]

\* The body of canon_r5_storage_mount_card under the storage lock.
MountCardOn(s, slot) == IF s.cards[slot].status # CANON_R5_STORAGE_STATUS_INSERTED THEN [ret |-> "ENODEV", s |-> s] ELSE [ret |-> "OK", s |-> [s EXCEPT !.cards[slot].status = CANON_R5_STORAGE_STATUS_MOUNTED, !.active_card = IF @ < 0 THEN slot ELSE @]]

\* An unmount that only marks the slot empty.
UnmountKeepsRecord(s, slot) == [s EXCEPT !.cards[slot].status = CANON_R5_STORAGE_STATUS_EMPTY, !.active_card = IF @ = slot THEN 0 - 1 ELSE @]

\* The body of canon_r5_storage_unmount_card under the storage lock.
UnmountCardOn(s, slot) == [s EXCEPT !.cards[slot] = ZeroCard, !.active_card = IF @ = slot THEN 0 - 1 ELSE @]

\* The body of canon_r5_storage_format_card on a mounted slot, r being the
\* return of canon_r5_ptp_format_storage.
FormatCardOn(s, slot, r) == IF r = "OK" THEN [s EXCEPT !.cards[slot].free_space = s.cards[slot].total_capacity] ELSE s

\* canon_r5_storage_mount_card(storage, slot) from call to return; the
\* argument check comes before the lock, which must be free to go on.
MountCard(c, slot, has_storage) ==
    /\ CalledBy(c, "mount", slot, has_storage)
    /\ IF ~has_storage \/ ~canon_r5_storage_slot_valid(slot)
       THEN /\ last' = Returned("mount", slot, "EINVAL", 0, 0)
            /\ UNCHANGED <<storage, after_scan>>
       ELSE /\ storage.lock = 0
            /\ storage' = MountCardOn(storage, slot).s
            /\ last' = Returned("mount", slot, MountCardOn(storage, slot).ret, 0, 0)
            /\ after_scan' = AfterMount(after_scan, slot, MountCardOn(storage, slot).ret)
    /\ ev' = WorkAfter(c)
    /\ UNCHANGED ptp
    /\ UNCHANGED nonVolVars

\* canon_r5_storage_unmount_card(storage, slot) from call to return.
UnmountCard(c, slot, has_storage) ==
    /\ CalledBy(c, "unmount", slot, has_storage)
    /\ IF ~has_storage \/ ~canon_r5_storage_slot_valid(slot)
       THEN /\ last' = Returned("unmount", slot, "EINVAL", 0, 0)
            /\ UNCHANGED <<storage, after_scan>>
       ELSE /\ storage.lock = 0
            /\ storage' = UnmountCardOn(storage, slot)
            /\ last' = Returned("unmount", slot, "OK", 0, 0)
            /\ after_scan' = "no"
    /\ ev' = WorkAfter(c)
    /\ UNCHANGED ptp
    /\ UNCHANGED nonVolVars

\* canon_r5_storage_format_card(storage, slot) from call to return.
FormatCard(slot, has_storage) ==
    /\ IF ~has_storage \/ ~canon_r5_storage_slot_valid(slot)
       THEN /\ last' = Returned("format", slot, "EINVAL", 0, 0)
            /\ UNCHANGED <<storage, after_scan, ptp>>
       ELSE /\ storage.lock = 0
            /\ ptp.lock = 0
            /\ IF storage.cards[slot].status # CANON_R5_STORAGE_STATUS_MOUNTED
               THEN /\ last' = Returned("format", slot, "ENODEV", 0, 0)
                    /\ UNCHANGED <<storage, ptp>>
               ELSE \E r \in PtpCommandOutcomes(ptp, PtpOpFormatStore) :
                      /\ ptp' = PtpAfterCommand(ptp, PtpOpFormatStore)
                      /\ storage' = FormatCardOn(storage, slot, r)
                      /\ last' = Returned("format", slot, r, 0, 1)
            /\ after_scan' = "no"
    /\ UNCHANGED ev
    /\ UNCHANGED nonVolVars

\* canon_r5_storage_scan_cards(storage) from call to return: the storage
\* ids, then for each of the two ids a get_storage_info whose failure leaves
\* that slot's record as it was (ok[i] says whether it succeeded).
ScanCards(has_storage) ==
    /\ IF ~has_storage
       THEN /\ last' = Returned("scan", 0, "EINVAL", 0, 0)
            /\ UNCHANGED <<storage, after_scan, ptp>>
       ELSE /\ storage.lock = 0
            /\ ptp.lock = 0
            /\ \E r \in PtpCommandOutcomes(ptp, PTP_OP_GET_STORAGE_IDS) :
                 IF r # "OK"
                 THEN /\ ptp' = PtpAfterCommand(ptp, PTP_OP_GET_STORAGE_IDS)
                      /\ last' = Returned("scan", 0, r, 0, 1)
                      /\ after_scan' = "no"
                      /\ UNCHANGED storage
                 ELSE \E ok \in [ValidSlots -> BOOLEAN] :
                      /\ ptp' = PtpAfterCommand(PtpAfterCommand(PtpAfterCommand(ptp, PTP_OP_GET_STORAGE_IDS), PTP_OP_GET_STORAGE_INFO), PTP_OP_GET_STORAGE_INFO)
                      /\ storage' = [storage EXCEPT !.cards = [i \in ValidSlots |-> IF ok[i] THEN ScannedCard(StorageId(i)) ELSE storage.cards[i]]]
                      /\ last' = Returned("scan", 0, "OK", 2, 3)
                      /\ after_scan' = IF \A i \in ValidSlots : ok[i] THEN "scan2" ELSE "no"
    /\ UNCHANGED ev
    /\ UNCHANGED nonVolVars

\* What canon_r5_fs_statfs stores in f_blocks and f_bfree.
StatfsOf(s) == IF s.active_card >= 0 /\ s.active_card < CANON_R5_MAX_STORAGE_CARDS THEN [f_blocks |-> s.cards[s.active_card].total_capacity \div PAGE_SIZE, f_bfree |-> s.cards[s.active_card].free_space \div PAGE_SIZE] ELSE [f_blocks |-> 0, f_bfree |-> 0]

\* canon_r5_fs_statfs: reads the active slot without taking the storage lock.
Statfs ==
    /\ last' = [Returned("statfs", 0, "OK", 0, 0) EXCEPT !.f_blocks = StatfsOf(storage).f_blocks, !.f_bfree = StatfsOf(storage).f_bfree]
    /\ UNCHANGED <<storage, ev, after_scan, ptp>>
    /\ UNCHANGED nonVolVars

\* A test's set-up of a slot (cards[slot] = test_card): the way a slot comes
\* to hold an inserted card while no work item holds the storage lock.
TestSetupCard(slot) ==
    /\ storage.lock = 0
    /\ storage' = [storage EXCEPT !.cards[slot] = TestCard(slot)]
    /\ last' = Returned("setup", slot, "none", 0, 0)
    /\ after_scan' = "no"
    /\ UNCHANGED <<ev, ptp>>
    /\ UNCHANGED nonVolVars

NextVol ==
    \/ OpenSession
    \/ CloseSession
    \/ \E has_storage \in BOOLEAN : ScanCards(has_storage)
    \/ \E slot \in Slots, has_storage \in BOOLEAN : MountCard("fg", slot, has_storage)
    \/ \E slot \in Slots, has_storage \in BOOLEAN : UnmountCard("fg", slot, has_storage)
    \/ \E slot \in Slots, has_storage \in BOOLEAN : FormatCard(slot, has_storage)
    \/ Statfs
    \/ \E slot \in ValidSlots : TestSetupCard(slot)

SpecVol == Init /\ [][NextVol]_vars

(* --------------------- canon_r5_storage_card_event_work ---------------- *)

\* The work item is queued with the event's slot and status.
EvQueue(slot, status) ==
    /\ ev.pc \in {"idle", "done"}
    /\ ev' = [pc |-> "lock", slot |-> slot, status |-> status]
    /\ UNCHANGED <<storage, last, after_scan, ptp>>
    /\ UNCHANGED nonVolVars

\* mutex_lock(&storage->lock) at the head of the work function.
EvLock ==
    /\ ev.pc = "lock"
    /\ storage.lock = 0
    /\ storage' = [storage EXCEPT !.lock = WorkId]
    /\ ev' = [ev EXCEPT !.pc = "body"]
    /\ UNCHANGED <<last, after_scan, ptp>>
    /\ UNCHANGED nonVolVars

\* Under the lock: for a valid slot the reported status is stored, and an
\* insertion goes on to call mount_card, a removal to call unmount_card.
EvBody ==
    /\ ev.pc = "body"
    /\ IF canon_r5_storage_slot_valid(ev.slot)
       THEN /\ storage' = [storage EXCEPT !.cards[ev.slot].status = ev.status]
            /\ ev' = [ev EXCEPT !.pc = IF ev.status = CANON_R5_STORAGE_STATUS_INSERTED THEN "mount" ELSE IF ev.status = CANON_R5_STORAGE_STATUS_EMPTY THEN "unmount" ELSE "unlock"]
            /\ last' = Returned("event", ev.slot, "none", 0, 0)
            /\ after_scan' = "no"
       ELSE /\ ev' = [ev EXCEPT !.pc = "unlock"]
            /\ UNCHANGED <<storage, last, after_scan>>
    /\ UNCHANGED ptp
    /\ UNCHANGED nonVolVars

\* mutex_unlock(&storage->lock) at the end of the work function.
EvUnlock ==
    /\ ev.pc = "unlock"
    /\ storage' = [storage EXCEPT !.lock = 0]
    /\ ev' = [ev EXCEPT !.pc = "done"]
    /\ UNCHANGED <<last, after_scan, ptp>>
    /\ UNCHANGED nonVolVars

\* The steps of the work item, its calls into the volume manager included.
EvStep ==
    \/ EvLock
    \/ EvBody
    \/ EvUnlock
    \/ \E slot \in ValidSlots : MountCard("work", slot, TRUE)
    \/ \E slot \in ValidSlots : UnmountCard("work", slot, TRUE)

NextEvent ==
    \/ \E slot \in Slots, status \in EventStatuses : EvQueue(slot, status)
    \/ EvLock
    \/ EvBody
    \/ EvUnlock
    \/ \E c \in Callers, slot \in Slots, has_storage \in BOOLEAN : MountCard(c, slot, has_storage)
    \/ \E c \in Callers, slot \in Slots, has_storage \in BOOLEAN : UnmountCard(c, slot, has_storage)

\* A queued work item is run by its work queue: the work item keeps taking
\* steps while it has one to take.
SpecEvent == Init /\ [][NextEvent]_vars /\ WF_vars(EvStep)

(* ------------------------ object store operations --------------------- *)

\* The sequence q without its entries equal to h (list_del of h's node).
RECURSIVE ListDel(_, _)
ListDel(q, h) == IF q = << >> THEN << >> ELSE IF Head(q) = h THEN ListDel(Tail(q), h) ELSE <<Head(q)>> \o ListDel(Tail(q), h)

\* An object's information is fetched and the object entered into the
\* handle-indexed tree, not cached.
IndexObject(h, size, mtime) ==
    /\ h \notin fsi.file_tree
    /\ mtime <= now
    /\ fsi' = [fsi EXCEPT !.file_tree = @ \cup {h}, !.obj[h] = [NoObject EXCEPT !.file_size = size, !.modification_time = mtime, !.ref_count = 1]]
    /\ UNCHANGED <<now, ptp>>
    /\ UNCHANGED nonCacheVars

\* Eviction for a new payload of need units: while the counter would exceed
\* the budget, the entry at the tail of the recency list is taken off the
\* list, its buffer freed and its cached flag cleared; it stays in the tree.
RECURSIVE EvictFor(_, _)
EvictFor(f, need) == IF f.total_size + need <= f.max_size \/ f.lru_list = << >> THEN f ELSE EvictFor([f EXCEPT !.lru_list = SubSeq(@, 1, Len(@) - 1), !.total_size = @ - f.obj[f.lru_list[Len(f.lru_list)]].cache_size, !.obj[f.lru_list[Len(f.lru_list)]] = [@ EXCEPT !.cached = FALSE, !.has_data = FALSE, !.cache_size = 0]], need)

\* canon_r5_storage_cache_file: the object's content is read into a new
\* buffer, room is made by eviction, the object goes to the head of the
\* recency list and the counter grows by its size.
CacheFile(h) ==
    /\ h \in fsi.file_tree
    /\ ~fsi.obj[h].cached
    /\ fsi' = [EvictFor([fsi EXCEPT !.lru_list = ListDel(@, h)], fsi.obj[h].file_size) EXCEPT !.lru_list = <<h>> \o @, !.total_size = @ + fsi.obj[h].file_size, !.obj[h] = [@ EXCEPT !.cached = TRUE, !.has_data = TRUE, !.cache_size = fsi.obj[h].file_size]]
    /\ fsi'.total_size <= MaxCacheTotal
    /\ UNCHANGED <<now, ptp>>
    /\ UNCHANGED nonCacheVars

\* What canon_r5_storage_cache_cleanup_work does to one entry of the recency
\* list at time t: a cached entry modified before t - timeout loses its
\* buffer, its cache_size and its cached flag.
CleanupEntry(o, t) == IF o.cached /\ o.modification_time < t - CANON_R5_CACHE_TIMEOUT /\ o.has_data THEN [o EXCEPT !.has_data = FALSE, !.cache_size = 0, !.cached = FALSE] ELSE o

\* What the loop subtracts from total_size for that entry: its cache_size as
\* read after it has been set to 0.
CleanupSubtracts(o, t) == CleanupEntry(o, t).cache_size

\* The sum of CleanupSubtracts over the entries of list q.
RECURSIVE CleanupTotal(_, _, _)
CleanupTotal(f, q, t) == IF q = << >> THEN 0 ELSE (IF CleanupEntry(f.obj[Head(q)], t) # f.obj[Head(q)] THEN CleanupSubtracts(f.obj[Head(q)], t) ELSE 0) + CleanupTotal(f, Tail(q), t)

\* canon_r5_storage_cache_cleanup_work: one pass over the recency list; no
\* entry is taken off the list.
CleanupWork ==
    /\ fsi' = [fsi EXCEPT !.obj = [h \in Handles |-> IF \E i \in 1..Len(fsi.lru_list) : fsi.lru_list[i] = h THEN CleanupEntry(fsi.obj[h], now) ELSE fsi.obj[h]], !.total_size = @ - CleanupTotal(fsi, fsi.lru_list, now)]
    /\ UNCHANGED <<now, ptp>>
    /\ UNCHANGED nonCacheVars

\* A delete that erases the object from the tree only.
DeleteKeepsLru(h, r) ==
    /\ h \in fsi.file_tree
    /\ ptp.lock = 0
    /\ r \in PtpCommandOutcomes(ptp, PTP_OP_DELETE_OBJECT)
    /\ ptp' = PtpAfterCommand(ptp, PTP_OP_DELETE_OBJECT)
    /\ fsi' = IF r = "OK" THEN [fsi EXCEPT !.file_tree = @ \ {h}] ELSE fsi
    /\ UNCHANGED now
    /\ UNCHANGED nonCacheVars

\* canon_r5_storage_delete_file on an indexed object, returning r: the
\* delete-object command, and on success the object leaves the tree and the
\* recency list.
DeleteFileRet(h, r) ==
    /\ h \in fsi.file_tree
    /\ ptp.lock = 0
    /\ r \in PtpCommandOutcomes(ptp, PTP_OP_DELETE_OBJECT)
    /\ ptp' = PtpAfterCommand(ptp, PTP_OP_DELETE_OBJECT)
    /\ fsi' = IF r = "OK" THEN [fsi EXCEPT !.file_tree = @ \ {h}, !.lru_list = ListDel(@, h)] ELSE fsi
    /\ UNCHANGED now
    /\ UNCHANGED nonCacheVars

\* What canon_r5_ptp_command can return.
PtpReturns == {"OK", "EINVAL", "ENOTCONN", "EPROTO"} \cup TransportErrors

DeleteFile(h) == \E r \in PtpReturns : DeleteFileRet(h, r)

\* Time passes.
Tick ==
    /\ now < MaxTime
    /\ now' = now + 1
    /\ UNCHANGED <<fsi, ptp>>
    /\ UNCHANGED nonCacheVars

NextCache ==
    \/ OpenSession
    \/ CloseSession
    \/ \E h \in Handles, size \in FileSizes, mtime \in Times : IndexObject(h, size, mtime)
    \/ \E h \in Handles : CacheFile(h)
    \/ CleanupWork
    \/ \E h \in Handles : DeleteFile(h)
    \/ Tick

SpecCache == Init /\ [][NextCache]_vars

\* The index under indexing, caching and deletion alone.
NextIndex ==
    \/ OpenSession
    \/ CloseSession
    \/ \E h \in Handles, size \in FileSizes, mtime \in Times : IndexObject(h, size, mtime)
    \/ \E h \in Handles : CacheFile(h)
    \/ \E h \in Handles : DeleteFile(h)

SpecIndex == Init /\ [][NextIndex]_vars

(* --------------------------- object access ----------------------------- *)

\* The record of an object access call that has returned ret.
FsReturned(op, h, ret) == [fs EXCEPT !.op = op, !.h = h, !.ret = ret, !.file_obj = 0, !.found = FALSE]

\* canon_r5_ptp_get_object_info(dev, h, info): the get-object-info command;
\* on success the caller's info structure is filled in.  Neither the tree
\* nor the recency list is touched.
GetObjectInfo(h) ==
    /\ ptp.lock = 0
    /\ \E r \in PtpCommandOutcomes(ptp, PTP_OP_GET_OBJECT_INFO) :
         /\ ptp' = PtpAfterCommand(ptp, PTP_OP_GET_OBJECT_INFO)
         /\ fs' = [FsReturned("get_object_info", h, r) EXCEPT !.fetched = IF r = "OK" THEN @ \cup {h} ELSE @]
    /\ UNCHANGED nonFsVars

\* What canon_r5_storage_get_file returns for handle h: NULL (0) without a
\* filesystem bound to the storage device, else the tree's object of that
\* handle, or NULL when the walk down the tree ends without a match.
canon_r5_storage_get_file(has_fs_info, f, h) == IF ~has_fs_info THEN 0 ELSE IF h \in f.file_tree THEN h ELSE 0

\* canon_r5_storage_get_file(storage, h) from call to return: an object
\* that is found is returned with one more reference (kref_get).
GetFile(h, has_fs_info) ==
    /\ fs' = [FsReturned("get_file", h, "OK") EXCEPT !.file_obj = canon_r5_storage_get_file(has_fs_info, fsi, h)]
    /\ fsi' = IF canon_r5_storage_get_file(has_fs_info, fsi, h) # 0 THEN [fsi EXCEPT !.obj[h].ref_count = @ + 1] ELSE fsi
    /\ UNCHANGED <<ptp, th, issued, storage, ev, last, after_scan, now, cc>>

\* canon_r5_storage_write_file(storage, filename, bytes, size, &new_file):
\* argument check (size 0 is refused), active-slot check, the send-object
\* command, then the new object, whose handle comes from the clock and whose
\* allocation may fail (alloc_ok); the call returns 0 either way.  The new
\* object is zero-filled apart from handle, name, type, size and times: it
\* is not cached and in no tree or list.
WriteFile(bytes, has_storage, alloc_ok) ==
    /\ ptp.lock = 0
    /\ IF ~has_storage \/ Len(bytes) = 0
       THEN /\ fs' = FsReturned("write_file", 0, "EINVAL")
            /\ UNCHANGED ptp
       ELSE IF storage.active_card < 0
       THEN /\ fs' = FsReturned("write_file", 0, "ENODEV")
            /\ UNCHANGED ptp
       ELSE \E r \in PtpCommandOutcomes(ptp, PtpOpSendObjectData), new_handle \in Handles :
              /\ ptp' = PtpAfterCommand(ptp, PtpOpSendObjectData)
              /\ fs' = IF r # "OK" THEN FsReturned("write_file", 0, r) ELSE [FsReturned("write_file", new_handle, "OK") EXCEPT !.new_file = IF alloc_ok THEN new_handle ELSE 0, !.written = IF alloc_ok THEN bytes ELSE << >>, !.data = << >>]
    /\ UNCHANGED nonFsVars

\* What canon_r5_ptp_get_object_data leaves in the buffer for a read of
\* size blocks: min(size, sizeof(response)) blocks of the pattern, whatever
\* the object and the offset.
canon_r5_ptp_get_object_data(size) == [i \in 1..Min(size, ObjectDataBuf) |-> DataPattern]

\* canon_r5_storage_read_file(storage, new_file, buffer, file_size, 0,
\* &bytes_read) on the object the last write returned.  That object is not
\* cached (no code sets cached), so the read goes to the camera.
ReadFile(has_storage) ==
    /\ fs.new_file # 0
    /\ ptp.lock = 0
    /\ IF ~has_storage
       THEN /\ fs' = [fs EXCEPT !.op = "read_file", !.h = fs.new_file, !.ret = "EINVAL", !.data = << >>]
            /\ UNCHANGED ptp
       ELSE \E r \in PtpCommandOutcomes(ptp, PTP_OP_GET_OBJECT) :
              /\ ptp' = PtpAfterCommand(ptp, PTP_OP_GET_OBJECT)
              /\ fs' = [fs EXCEPT !.op = "read_file", !.h = fs.new_file, !.ret = r, !.data = IF r = "OK" THEN canon_r5_ptp_get_object_data(Len(fs.written)) ELSE << >>]
    /\ UNCHANGED nonFsVars

(* ------------------------- directory listing -------------------------- *)

\* The engine after n more commands of the given code.
RECURSIVE PtpAfterCommands(_, _, _)
PtpAfterCommands(p, code, n) == IF n = 0 THEN p ELSE PtpAfterCommands(PtpAfterCommand(p, code), code, n - 1)

\* The entries list_directory builds when get_object_info (and the entry's
\* allocation) succeeded for the handles h with ok[h]: in handle order.
DirListing(ok) == SelectSeq([i \in 1..MaxHandles |-> i], LAMBDA h : ok[h])

\* canon_r5_storage_list_directory(storage, parent, &entries): what it can
\* return, the entries it built and the engine after it.  The handles the
\* camera reports are those of Handles (the code: 10 of them); an entry
\* whose get_object_info fails is left out.  On success the function
\* returns count, the number of handles (ret "OK" stands for that value).
canon_r5_storage_list_directory(has_storage) == IF ~has_storage THEN {[ret |-> "EINVAL", entries |-> << >>, count |-> 0, ptp |-> ptp]} ELSE IF storage.active_card < 0 THEN {[ret |-> "ENODEV", entries |-> << >>, count |-> 0, ptp |-> ptp]} ELSE {[ret |-> r, entries |-> << >>, count |-> 0, ptp |-> PtpAfterCommand(ptp, PTP_OP_GET_OBJECT_HANDLES)] : r \in PtpCommandOutcomes(ptp, PTP_OP_GET_OBJECT_HANDLES) \ {"OK"}} \cup (IF "OK" \in PtpCommandOutcomes(ptp, PTP_OP_GET_OBJECT_HANDLES) THEN {[ret |-> "OK", entries |-> DirListing(ok), count |-> MaxHandles, ptp |-> PtpAfterCommands(PtpAfterCommand(ptp, PTP_OP_GET_OBJECT_HANDLES), PTP_OP_GET_OBJECT_INFO, MaxHandles)] : ok \in [Handles -> BOOLEAN]} ELSE {})

\* The head of canon_r5_fs_readdir: "." at position 0 and ".." at position
\* 1, each emitted if the caller's buffer has room; stop says that the call
\* returns there, room is what is left of the buffer.
DotsAfter(pos, room) == IF pos = 0 THEN (IF room = 0 THEN [pos |-> 0, room |-> 0, stop |-> TRUE] ELSE IF room = 1 THEN [pos |-> 1, room |-> 0, stop |-> TRUE] ELSE [pos |-> 2, room |-> room - 2, stop |-> FALSE]) ELSE IF pos = 1 THEN (IF room = 0 THEN [pos |-> 1, room |-> 0, stop |-> TRUE] ELSE [pos |-> 2, room |-> room - 1, stop |-> FALSE]) ELSE [pos |-> pos, room |-> room, stop |-> FALSE]

\* A directory is opened: a new directory context at position 0.
OpenDir ==
    /\ fs' = [FsReturned("opendir", 0, "OK") EXCEPT !.pos = 0, !.emitted = [h \in Handles |-> 0]]
    /\ UNCHANGED ptp
    /\ UNCHANGED nonFsVars

\* One call of canon_r5_fs_readdir(file, ctx) with room for room entries in
\* the caller's buffer: the dot entries, a fresh listing, then dir_emit of
\* the listing's entries from its first one on, ctx->pos counting each.
\* reported is the number of object handles in the camera's response to
\* get-object-handles, which canon_r5_ptp_get_object_handles does not parse:
\* on response code OK it makes up its handles.
FsReaddir(has_storage, room, reported) ==
    /\ fs.pos <= MaxPos - MaxHandles
    /\ ptp.lock = 0
    /\ IF DotsAfter(fs.pos, room).stop
       THEN /\ fs' = [FsReturned("readdir", 0, "OK") EXCEPT !.pos = DotsAfter(fs.pos, room).pos]
            /\ UNCHANGED ptp
       ELSE \E l \in canon_r5_storage_list_directory(has_storage) :
              /\ ptp' = l.ptp
              /\ fs' = [FsReturned("readdir", 0, l.ret) EXCEPT !.pos = DotsAfter(fs.pos, room).pos + Min(DotsAfter(fs.pos, room).room, Len(l.entries)), !.emitted = [h \in Handles |-> @[h] + IF \E i \in 1..Min(DotsAfter(fs.pos, room).room, Len(l.entries)) : l.entries[i] = h THEN 1 ELSE 0], !.reported = reported]
    /\ UNCHANGED nonFsVars

NextDir ==
    \/ OpenSession
    \/ CloseSession
    \/ TestSetupCard(0)
    \/ MountCard("fg", 0, TRUE)
    \/ OpenDir
    \/ \E has_storage \in BOOLEAN, room \in 0..(MaxHandles + 2), reported \in 0..MaxHandles : FsReaddir(has_storage, room, reported)

SpecDir == Init /\ [][NextDir]_vars

(* ------------------------- lookup by name ------------------------------ *)

\* canon_r5_fs_lookup(dir, dentry) for name n: a fresh listing is searched
\* for the name; on a match a new inode (alloc_ok: new_inode succeeded)
\* takes the entry's handle and, as file_obj, what canon_r5_storage_get_file
\* returns for it.  Without a match, or without an inode, the dentry stays
\* negative.
FsLookup(n, has_storage, has_fs_info, alloc_ok) ==
    /\ ptp.lock = 0
    /\ \E l \in canon_r5_storage_list_directory(has_storage) :
         /\ ptp' = l.ptp
         /\ fs' = IF l.ret = "OK" /\ alloc_ok /\ (\E i \in 1..Len(l.entries) : l.entries[i] = n) THEN [FsReturned("lookup", n, "OK") EXCEPT !.found = TRUE, !.file_obj = canon_r5_storage_get_file(has_fs_info, fsi, n)] ELSE FsReturned("lookup", n, l.ret)
    /\ UNCHANGED nonFsVars

\* canon_r5_fs_read on the node the last lookup made: -ENOENT without a
\* file object, else (alloc_ok: vmalloc succeeded) the object's bytes are
\* read through canon_r5_storage_read_file.
FsRead(alloc_ok) ==
    /\ fs.op \in {"lookup", "read"}
    /\ fs.found
    /\ ptp.lock = 0
    /\ IF fs.file_obj = 0 \/ ~alloc_ok
       THEN /\ fs' = [fs EXCEPT !.op = "read", !.ret = IF fs.file_obj = 0 THEN "ENOENT" ELSE "ENOMEM"]
            /\ UNCHANGED ptp
       ELSE \E r \in PtpCommandOutcomes(ptp, PTP_OP_GET_OBJECT) :
              /\ ptp' = PtpAfterCommand(ptp, PTP_OP_GET_OBJECT)
              /\ fs' = [fs EXCEPT !.op = "read", !.ret = r]
    /\ UNCHANGED nonFsVars

\* An unlink that hands the node's object to the object store unchecked
\* (canon_r5_storage_delete_file refuses a NULL file with -EINVAL).
FsUnlinkUnchecked ==
    /\ fs.op \in {"lookup", "read", "unlink"}
    /\ fs.found
    /\ ptp.lock = 0
    /\ IF fs.file_obj = 0
       THEN /\ fs' = [fs EXCEPT !.op = "unlink", !.ret = "EINVAL"]
            /\ UNCHANGED ptp
            /\ UNCHANGED nonFsVars
       ELSE DeleteFile(fs.file_obj)

\* canon_r5_fs_unlink on the node the last lookup made: -ENOENT without a
\* file object, else what canon_r5_storage_delete_file of the node's object
\* does and returns.
FsUnlink ==
    /\ fs.op \in {"lookup", "read", "unlink"}
    /\ fs.found
    /\ ptp.lock = 0
    /\ IF fs.file_obj = 0
       THEN /\ fs' = [fs EXCEPT !.op = "unlink", !.ret = "ENOENT"]
            /\ UNCHANGED ptp
            /\ UNCHANGED nonFsVars
       ELSE DeleteFile(fs.file_obj)

\* A directory call that reports success.
FsMkdirDone(op) ==
    /\ fs' = [fs EXCEPT !.op = op, !.ret = "OK"]
    /\ UNCHANGED ptp
    /\ UNCHANGED nonFsVars

\* canon_r5_fs_mkdir (op "mkdir") and canon_r5_fs_rmdir (op "rmdir"): each
\* is the single statement return -EPERM, whatever the state.
FsMkdir(op) ==
    /\ fs' = [fs EXCEPT !.op = op, !.ret = "EPERM"]
    /\ UNCHANGED ptp
    /\ UNCHANGED nonFsVars

NextFs ==
    \/ OpenSession
    \/ CloseSession
    \/ TestSetupCard(0)
    \/ MountCard("fg", 0, TRUE)
    \/ \E h \in Handles : GetObjectInfo(h)
    \/ \E h \in Handles, has_fs_info \in BOOLEAN : GetFile(h, has_fs_info)
    \/ \E n \in Names, has_storage \in BOOLEAN, has_fs_info \in BOOLEAN, alloc_ok \in BOOLEAN : FsLookup(n, has_storage, has_fs_info, alloc_ok)
    \/ \E alloc_ok \in BOOLEAN : FsRead(alloc_ok)
    \/ FsUnlink
    \/ \E op \in {"mkdir", "rmdir"} : FsMkdir(op)

SpecFs == Init /\ [][NextFs]_vars

NextFile ==
    \/ OpenSession
    \/ CloseSession
    \/ TestSetupCard(0)
    \/ MountCard("fg", 0, TRUE)
    \/ \E bytes \in Contents, has_storage \in BOOLEAN, alloc_ok \in BOOLEAN : WriteFile(bytes, has_storage, alloc_ok)
    \/ \E has_storage \in BOOLEAN : ReadFile(has_storage)

SpecFile == Init /\ [][NextFile]_vars

(* ------------- readers of the volume array beside an unmount ------------ *)

\* canon_r5_fs_statfs, one read of the storage device per step and no
\* mutex_lock anywhere: slot = storage->active_card; then, if the slot is in
\* range, f_blocks from cards[slot].total_capacity; then f_bfree from
\* cards[slot].free_space.
StatfsStep ==
    /\ \/ /\ cc.statfs.pc \in {"idle", "done"}
          /\ cc' = [cc EXCEPT !.statfs = [pc |-> "blocks", slot |-> storage.active_card, f_blocks |-> 0, f_bfree |-> 0]]
       \/ /\ cc.statfs.pc = "blocks"
          /\ cc' = IF cc.statfs.slot >= 0 /\ cc.statfs.slot < CANON_R5_MAX_STORAGE_CARDS THEN [cc EXCEPT !.statfs.pc = "bfree", !.statfs.f_blocks = storage.cards[cc.statfs.slot].total_capacity \div PAGE_SIZE] ELSE [cc EXCEPT !.statfs.pc = "done"]
       \/ /\ cc.statfs.pc = "bfree"
          /\ cc' = [cc EXCEPT !.statfs.pc = "done", !.statfs.f_bfree = storage.cards[cc.statfs.slot].free_space \div PAGE_SIZE]
    /\ UNCHANGED <<ptp, th, issued, storage, ev, last, after_scan, fsi, now, fs>>

\* canon_r5_storage_unmount_card(storage, slot) statement by statement:
\* mutex_lock (the owner recorded is WorkId + 1); cards[slot].status =
\* CANON_R5_STORAGE_STATUS_EMPTY; memset of the record; active_card = -1 if
\* it was this slot; mutex_unlock and return.
UnmountStep(slot) ==
    /\ canon_r5_storage_slot_valid(slot)
    /\ \/ /\ cc.um.pc = "idle"
          /\ storage.lock = 0
          /\ storage' = [storage EXCEPT !.lock = WorkId + 1]
          /\ cc' = [cc EXCEPT !.um = [pc |-> "status", slot |-> slot]]
       \/ /\ cc.um.pc = "status" /\ cc.um.slot = slot
          /\ storage' = [storage EXCEPT !.cards[slot].status = CANON_R5_STORAGE_STATUS_EMPTY]
          /\ cc' = [cc EXCEPT !.um.pc = "memset"]
       \/ /\ cc.um.pc = "memset" /\ cc.um.slot = slot
          /\ storage' = [storage EXCEPT !.cards[slot] = ZeroCard]
          /\ cc' = [cc EXCEPT !.um.pc = "active"]
       \/ /\ cc.um.pc = "active" /\ cc.um.slot = slot
          /\ storage' = [storage EXCEPT !.active_card = IF @ = slot THEN 0 - 1 ELSE @]
          /\ cc' = [cc EXCEPT !.um.pc = "unlock"]
       \/ /\ cc.um.pc = "unlock" /\ cc.um.slot = slot
          /\ storage' = [storage EXCEPT !.lock = 0]
          /\ cc' = [cc EXCEPT !.um.pc = "idle"]
    /\ UNCHANGED <<ptp, th, issued, ev, last, after_scan, fsi, now, fs>>

NextLock ==
    \/ \E slot \in ValidSlots : TestSetupCard(slot)
    \/ \E slot \in ValidSlots : MountCard("fg", slot, TRUE)
    \/ StatfsStep
    \/ \E slot \in ValidSlots : UnmountStep(slot)

SpecLock == Init /\ [][NextLock]_vars

(* ------------- cache cleanup work beside a delete, stepwise ------------- *)

\* The entry after h on list q as the links stand: the head (0) after the
\* last entry, the first entry after the head, and h itself once
\* list_del_init has taken h off the list and linked it to itself.
ListNext(q, h) == IF h = 0 THEN (IF q = << >> THEN 0 ELSE Head(q)) ELSE IF \E i \in 1..Len(q) : q[i] = h THEN (LET i == CHOOSE j \in 1..Len(q) : q[j] = h IN IF i < Len(q) THEN q[i + 1] ELSE 0) ELSE h

\* canon_r5_storage_cache_cleanup_work statement by statement:
\* mutex_lock(&fs_info->lock) and the start of list_for_each_entry_safe;
\* one step per entry visited; mutex_unlock when the cursor is back at the
\* head.
CleanupStep ==
    /\ \/ /\ cc.cw.pc = "idle"
          /\ cc.lock = 0
          /\ cc' = [cc EXCEPT !.lock = 1, !.cw = [pc |-> "walk", file |-> ListNext(fsi.lru_list, 0), tmp |-> ListNext(fsi.lru_list, ListNext(fsi.lru_list, 0))]]
          /\ UNCHANGED fsi
       \/ /\ cc.cw.pc = "walk" /\ cc.cw.file # 0
          /\ fsi' = [fsi EXCEPT !.obj[cc.cw.file] = CleanupEntry(@, now), !.total_size = @ - (IF CleanupEntry(fsi.obj[cc.cw.file], now) # fsi.obj[cc.cw.file] THEN CleanupSubtracts(fsi.obj[cc.cw.file], now) ELSE 0)]
          /\ cc' = [cc EXCEPT !.cw.file = cc.cw.tmp, !.cw.tmp = ListNext(fsi.lru_list, cc.cw.tmp)]
       \/ /\ cc.cw.pc = "walk" /\ cc.cw.file = 0
          /\ cc' = [cc EXCEPT !.lock = 0, !.cw.pc = "idle"]
          /\ UNCHANGED fsi
    /\ UNCHANGED <<ptp, th, issued, storage, ev, last, after_scan, now, fs>>

\* canon_r5_storage_delete_file statement by statement on an indexed object:
\* the delete-object command (no lock held), returning when it failed;
\* spin_lock_irqsave(&fs_info->file_lock); rb_erase; list_del_init;
\* spin_unlock_irqrestore.
DeleteStep(h) ==
    /\ \/ /\ cc.dl.pc = "idle"
          /\ h \in fsi.file_tree
          /\ ptp.lock = 0
          /\ \E r \in PtpCommandOutcomes(ptp, PTP_OP_DELETE_OBJECT) : cc' = [cc EXCEPT !.dl = IF r = "OK" THEN [pc |-> "spin_lock", h |-> h] ELSE [pc |-> "idle", h |-> h]]
          /\ ptp' = PtpAfterCommand(ptp, PTP_OP_DELETE_OBJECT)
          /\ UNCHANGED fsi
       \/ /\ cc.dl.pc = "spin_lock" /\ cc.dl.h = h
          /\ cc.file_lock = 0
          /\ cc' = [cc EXCEPT !.file_lock = 1, !.dl.pc = "rb_erase"]
          /\ UNCHANGED <<fsi, ptp>>
       \/ /\ cc.dl.pc = "rb_erase" /\ cc.dl.h = h
          /\ fsi' = [fsi EXCEPT !.file_tree = @ \ {h}]
          /\ cc' = [cc EXCEPT !.dl.pc = "list_del"]
          /\ UNCHANGED ptp
       \/ /\ cc.dl.pc = "list_del" /\ cc.dl.h = h
          /\ fsi' = [fsi EXCEPT !.lru_list = ListDel(@, h)]
          /\ cc' = [cc EXCEPT !.dl.pc = "spin_unlock"]
          /\ UNCHANGED ptp
       \/ /\ cc.dl.pc = "spin_unlock" /\ cc.dl.h = h
          /\ cc' = [cc EXCEPT !.file_lock = 0, !.dl.pc = "idle"]
          /\ UNCHANGED <<fsi, ptp>>
    /\ UNCHANGED <<th, issued, storage, ev, last, after_scan, now, fs>>

NextSweep ==
    \/ OpenSession
    \/ CloseSession
    \/ \E h \in Handles, size \in FileSizes, mtime \in Times : IndexObject(h, size, mtime)
    \/ \E h \in Handles : CacheFile(h)
    \/ CleanupStep
    \/ \E h \in Handles : DeleteStep(h)

SpecSweep == Init /\ [][NextSweep]_vars

(* ---------------------- canon_r5_storage_cleanup ------------------------ *)

\* canon_r5_storage_cleanup statement by statement.  The sync and refresh
\* work items are not running here, so their cancel_..._sync calls return at
\* once and are part of the first step.  cancel_work_sync on the card-event
\* work takes a work item that has not started off its queue and otherwise
\* waits until the running work function has returned.  Then
\* canon_r5_storage_unmount_card for every slot, each taking storage->lock,
\* and the return (unregister, kfree).
DetachStep ==
    /\ \/ /\ cc.dt.pc = "idle"
          /\ cc' = [cc EXCEPT !.dt.pc = "cancel_event"]
          /\ UNCHANGED <<storage, ev>>
       \/ /\ cc.dt.pc = "cancel_event"
          /\ ev.pc \in {"idle", "done", "lock"}
          /\ ev' = IF ev.pc = "lock" THEN IdleWork ELSE ev
          /\ cc' = [cc EXCEPT !.dt = [pc |-> "unmount", i |-> 0]]
          /\ UNCHANGED storage
       \/ /\ cc.dt.pc = "unmount" /\ cc.dt.i < CANON_R5_MAX_STORAGE_CARDS
          /\ storage.lock = 0
          /\ storage' = UnmountCardOn(storage, cc.dt.i)
          /\ cc' = [cc EXCEPT !.dt.i = @ + 1]
          /\ UNCHANGED ev
       \/ /\ cc.dt.pc = "unmount" /\ cc.dt.i = CANON_R5_MAX_STORAGE_CARDS
          /\ cc' = [cc EXCEPT !.dt.pc = "done"]
          /\ UNCHANGED <<storage, ev>>
    /\ UNCHANGED <<ptp, th, issued, last, after_scan, fsi, now, fs>>

NextDetach ==
    \/ \E slot \in Slots, status \in EventStatuses : EvQueue(slot, status)
    \/ EvLock
    \/ EvBody
    \/ EvUnlock
    \/ \E slot \in ValidSlots : TestSetupCard(slot)
    \/ \E c \in Callers, slot \in ValidSlots : MountCard(c, slot, TRUE)
    \/ \E c \in Callers, slot \in ValidSlots : UnmountCard(c, slot, TRUE)
    \/ DetachStep

\* The work queue runs a queued work item, and the detaching thread keeps
\* running.
SpecDetach == Init /\ [][NextDetach]_vars /\ WF_vars(EvStep) /\ WF_vars(DetachStep)

(* ------------- canon_r5_storage_read_file on any file object ------------ *)

\* The file object of a read is given by what the read looks at: cached and
\* cache_data (<< >>: NULL), cache_size being the payload's length.

\* canon_r5_storage_read_file(storage, file, buffer, size, offset,
\* &bytes_read) is called with all pointers set.
ReadCall(file, size, offset) ==
    /\ cc.rd.pc \in {"idle", "done"}
    /\ cc' = [cc EXCEPT !.rd = [NoRead EXCEPT !.pc = "called", !.file = file, !.size = size, !.offset = offset]]
    /\ UNCHANGED <<ptp, th, issued, storage, ev, last, after_scan, fsi, now, fs>>

\* A read that copies from the start of the cached payload whatever the
\* offset.
ReadFileFromStart(file, size, offset) ==
    /\ cc.rd = [NoRead EXCEPT !.pc = "called", !.file = file, !.size = size, !.offset = offset]
    /\ ptp.lock = 0
    /\ file.cached /\ file.cache_data # << >> /\ offset < Len(file.cache_data)
    /\ cc.stats.cache_hits + cc.stats.files_read < MaxStat
    /\ cc' = [cc EXCEPT !.stats.cache_hits = @ + 1, !.rd = [NoRead EXCEPT !.pc = "done", !.ret = "OK", !.data = SubSeq(file.cache_data, 1, Min(size, Len(file.cache_data) - offset))]]
    /\ UNCHANGED <<ptp, th, issued, storage, ev, last, after_scan, fsi, now, fs>>

\* A read that counts a miss whether or not the camera delivered.
ReadFileCountsAll(file, size, offset) ==
    /\ cc.rd = [NoRead EXCEPT !.pc = "called", !.file = file, !.size = size, !.offset = offset]
    /\ ptp.lock = 0
    /\ ~(file.cached /\ file.cache_data # << >> /\ offset < Len(file.cache_data))
    /\ cc.stats.cache_hits + cc.stats.files_read < MaxStat
    /\ \E r \in PtpCommandOutcomes(ptp, PTP_OP_GET_OBJECT) :
         /\ ptp' = PtpAfterCommand(ptp, PTP_OP_GET_OBJECT)
         /\ cc' = [cc EXCEPT !.stats.files_read = @ + 1, !.stats.cache_misses = @ + 1, !.rd = [NoRead EXCEPT !.pc = "done", !.ret = r, !.data = IF r = "OK" THEN canon_r5_ptp_get_object_data(size) ELSE << >>]]
    /\ UNCHANGED <<th, issued, storage, ev, last, after_scan, fsi, now, fs>>

\* The body of that call, to its return.  A cached object is served from
\* its payload; any other read goes to the camera and counts as a miss when
\* it succeeded.
ReadFileOf(file, size, offset) ==
    /\ cc.rd = [NoRead EXCEPT !.pc = "called", !.file = file, !.size = size, !.offset = offset]
    /\ ptp.lock = 0
    /\ IF file.cached /\ file.cache_data # << >> /\ offset < Len(file.cache_data)
       THEN /\ cc.stats.cache_hits + cc.stats.files_read < MaxStat
            /\ cc' = [cc EXCEPT !.stats.cache_hits = @ + 1, !.rd = [NoRead EXCEPT !.pc = "done", !.ret = "OK", !.data = SubSeq(file.cache_data, offset + 1, offset + Min(size, Len(file.cache_data) - offset))]]
            /\ UNCHANGED ptp
       ELSE \E r \in PtpCommandOutcomes(ptp, PTP_OP_GET_OBJECT) :
              /\ r = "OK" => cc.stats.cache_hits + cc.stats.files_read < MaxStat
              /\ ptp' = PtpAfterCommand(ptp, PTP_OP_GET_OBJECT)
              /\ cc' = IF r = "OK" THEN [cc EXCEPT !.stats.files_read = @ + 1, !.stats.bytes_read = @ + Len(canon_r5_ptp_get_object_data(size)), !.stats.cache_misses = @ + 1, !.rd = [NoRead EXCEPT !.pc = "done", !.ret = "OK", !.data = canon_r5_ptp_get_object_data(size)]] ELSE [cc EXCEPT !.rd = [NoRead EXCEPT !.pc = "done", !.ret = r]]
    /\ UNCHANGED <<th, issued, storage, ev, last, after_scan, fsi, now, fs>>

NextRead ==
    \/ OpenSession
    \/ CloseSession
    \/ \E cached \in BOOLEAN, data \in {c \in Contents : Len(c) <= MaxPayload}, size \in 0..(MaxPayload + 1), offset \in 0..MaxPayload : ReadCall([cached |-> cached, cache_data |-> data], size, offset)
    \/ ReadFileOf(cc.rd.file, cc.rd.size, cc.rd.offset)

SpecRead == Init /\ [][NextRead]_vars

(* ------------------ writes to a write-protected volume ------------------ *)

\* canon_r5_storage_write_file beside a card event that reports the active
\* slot's card as write-protected.
NextProt ==
    \/ OpenSession
    \/ CloseSession
    \/ TestSetupCard(0)
    \/ MountCard("fg", 0, TRUE)
    \/ EvQueue(0, CANON_R5_STORAGE_STATUS_WRITE_PROTECTED)
    \/ EvLock
    \/ EvBody
    \/ EvUnlock
    \/ \E bytes \in {c \in Contents : Len(c) <= MaxPayload}, alloc_ok \in BOOLEAN : WriteFile(bytes, TRUE, alloc_ok)

SpecProt == Init /\ [][NextProt]_vars

(* ------------------- references to a file object ------------------------ *)

\* The inodes of an object.  canon_r5_fs_lookup binds the object that
\* canon_r5_storage_get_file found (kref_get) to a new inode;
\* canon_r5_fs_destroy_inode puts the reference of the inode's object, and
\* the put that brings the count to zero releases the object (kfree).
InodeStep(h) ==
    /\ \/ /\ canon_r5_storage_get_file(TRUE, fsi, h) # 0
          /\ cc.nodes[h] < MaxNodes
          /\ fsi' = [fsi EXCEPT !.obj[h].ref_count = @ + 1]
          /\ cc' = [cc EXCEPT !.nodes[h] = @ + 1]
       \/ /\ cc.nodes[h] > 0
          /\ fsi' = [fsi EXCEPT !.obj[h] = IF @.ref_count = 1 THEN NoObject ELSE [@ EXCEPT !.ref_count = @ - 1]]
          /\ cc' = [cc EXCEPT !.nodes[h] = @ - 1]
    /\ UNCHANGED <<ptp, th, issued, storage, ev, last, after_scan, now, fs>>

\* Indexing (of a handle whose earlier object, if any, is gone), lookups
\* that bind, inode destruction and deletion.
NextRef ==
    \/ OpenSession
    \/ CloseSession
    \/ \E h \in Handles, size \in FileSizes, mtime \in Times : (cc.nodes[h] = 0 /\ fsi.obj[h].ref_count = 0 /\ IndexObject(h, size, mtime))
    \/ \E h \in Handles : InodeStep(h)
    \/ \E h \in Handles : DeleteFile(h)

SpecRef == Init /\ [][NextRef]_vars

(* ------------------ operation statistics, transaction ids -------------- *)

\* The statistics of the storage device under a write, a reset and a query.
\* canon_r5_storage_write_file of one block ends with stats.files_written++
\* and stats.bytes_written += size, made with no lock held: each is a load
\* and a store.  canon_r5_storage_reset_stats (memset) and
\* canon_r5_storage_get_stats (structure copy) run under storage->lock, each
\* in one step.
StatsStep ==
    /\ \/ /\ cc.up.pc = "idle"
          /\ cc.stats.files_written < MaxStat /\ cc.stats.bytes_written < MaxStat
          /\ cc' = [cc EXCEPT !.up = [pc |-> "files_written", reg |-> cc.stats.files_written]]
       \/ /\ cc.up.pc = "files_written"
          /\ cc' = [cc EXCEPT !.stats.files_written = cc.up.reg + 1, !.up = [pc |-> "load_bytes", reg |-> 0]]
       \/ /\ cc.up.pc = "load_bytes"
          /\ cc' = [cc EXCEPT !.up = [pc |-> "bytes_written", reg |-> cc.stats.bytes_written]]
       \/ /\ cc.up.pc = "bytes_written"
          /\ cc' = [cc EXCEPT !.stats.bytes_written = cc.up.reg + 1, !.up = [pc |-> "idle", reg |-> 0]]
       \/ /\ storage.lock = 0
          /\ cc' = [cc EXCEPT !.stats = CcInit.stats]
       \/ /\ storage.lock = 0
          /\ cc' = [cc EXCEPT !.snap = [files_written |-> cc.stats.files_written, bytes_written |-> cc.stats.bytes_written]]
    /\ UNCHANGED <<ptp, th, issued, storage, ev, last, after_scan, fsi, now, fs>>

\* canon_r5_ptp_command(dev, code, ...) from call to return, by one caller at
\* a time, once the session gate lets code through: the id of the command is
\* the counter's value and the counter moves on, whatever the exchange
\* returns.  issued records the ids in the order the calls took them, for
\* one call more than the counter has values.
PtpCommand(code) ==
    /\ ptp.lock = 0
    /\ SessionGate(ptp.session_open, code)
    /\ Len(issued) <= Pow2(TransIdBits)
    /\ ptp' = PtpAfterCommand(ptp, code)
    /\ issued' = Append(issued, ptp.transaction_id)
    /\ UNCHANGED <<th, storage, ev, last, after_scan, fsi, now, fs, cc>>

NextStats ==
    \/ StatsStep
    \/ \E code \in OpCodes : PtpCommand(code)

SpecStats == Init /\ [][NextStats]_vars

(* ----------------- one inode under read, unlink and write --------------- *)

\* One regular-file inode, cc.nd.file_obj being its info->file_obj (0:
\* NULL), under canon_r5_fs_write by one thread and canon_r5_fs_read or
\* canon_r5_fs_unlink by another; the VFS takes no lock around either.
\* The write: write-protect check, canon_r5_storage_write_file (send-object
\* command; the new object, alloc_ok, has the count 1 of kref_init), then
\* canon_r5_storage_put_file of the inode's old object, the put that brings
\* the count to 0 releasing it (kfree), then the store of the new pointer.
\* The read or unlink: the NULL test loads info->file_obj and takes no
\* reference; the object is then used (its file_size and the get-object
\* command of canon_r5_storage_read_file, or canon_r5_storage_delete_file
\* with its delete-object command).
NodeStep ==
    /\ ptp.lock = 0
    /\ \/ /\ cc.nd.wr.pc = "idle"
          /\ canon_r5_storage_slot_valid(storage.active_card)
          /\ storage.cards[storage.active_card].status # CANON_R5_STORAGE_STATUS_WRITE_PROTECTED
          /\ \E r \in PtpCommandOutcomes(ptp, PtpOpSendObjectData), alloc_ok \in BOOLEAN, h \in {n \in Handles : fsi.obj[n].ref_count = 0 /\ n \notin cc.nd.freed} :
               /\ ptp' = PtpAfterCommand(ptp, PtpOpSendObjectData)
               /\ fsi' = IF r = "OK" /\ alloc_ok THEN [fsi EXCEPT !.obj[h] = [NoObject EXCEPT !.file_size = 1, !.ref_count = 1]] ELSE fsi
               /\ cc' = IF r = "OK" /\ alloc_ok THEN [cc EXCEPT !.nd.wr = [pc |-> "put_file", new_file |-> h]] ELSE cc
       \/ /\ cc.nd.wr.pc = "put_file"
          /\ fsi' = IF cc.nd.file_obj = 0 THEN fsi ELSE [fsi EXCEPT !.obj[cc.nd.file_obj] = IF @.ref_count = 1 THEN NoObject ELSE [@ EXCEPT !.ref_count = @ - 1]]
          /\ cc' = [cc EXCEPT !.nd.wr.pc = "file_obj", !.nd.freed = IF cc.nd.file_obj # 0 /\ fsi.obj[cc.nd.file_obj].ref_count = 1 THEN @ \cup {cc.nd.file_obj} ELSE @]
          /\ UNCHANGED ptp
       \/ /\ cc.nd.wr.pc = "file_obj"
          /\ cc' = [cc EXCEPT !.nd.file_obj = cc.nd.wr.new_file, !.nd.wr = [pc |-> "idle", new_file |-> 0]]
          /\ UNCHANGED <<ptp, fsi>>
       \/ /\ cc.nd.rd.pc = "idle"
          /\ cc.nd.file_obj # 0
          /\ \E op \in {"read", "unlink"} : cc' = [cc EXCEPT !.nd.rd = [pc |-> "use", op |-> op, obj |-> cc.nd.file_obj]]
          /\ UNCHANGED <<ptp, fsi>>
       \/ /\ cc.nd.rd.pc = "use"
          /\ ptp' = PtpAfterCommand(ptp, IF cc.nd.rd.op = "read" THEN PTP_OP_GET_OBJECT ELSE PTP_OP_DELETE_OBJECT)
          /\ cc' = [cc EXCEPT !.nd.rd = CcInit.nd.rd]
          /\ UNCHANGED fsi
    /\ UNCHANGED <<th, issued, storage, ev, last, after_scan, now, fs>>

NextNode ==
    \/ OpenSession
    \/ CloseSession
    \/ TestSetupCard(0)
    \/ MountCard("fg", 0, TRUE)
    \/ NodeStep

SpecNode == Init /\ [][NextNode]_vars

(* ------------- open_session and close_session, step by step ------------- *)

\* canon_r5_ptp_open_session and canon_r5_ptp_close_session called by
\* several threads, cc.ss.call[t] being where thread t's call stands.  Each
\* canon_r5_ptp_command inside them is one step (the engine lock makes the
\* exchanges take turns); what the calls do to session_open is a step of
\* its own, under the engine lock taken again.  cc.ss.camera is the
\* device's side: TRUE when the last session command it answered with OK
\* was open-session; cc.ss.clean, that every session command so far was
\* answered with OK.
\* Open: the command; on any failure the call returns, on OK it goes on to
\* set session_id and session_open.  Close: returns at once on a closed
\* session; otherwise the command, its result only logged, and then the
\* flag and the id are cleared whatever the result.
SessionStep(t) ==
    /\ ptp.lock = 0
    /\ \/ /\ cc.ss.call[t] = "idle"
          /\ \E r \in PtpCommandOutcomes(ptp, PTP_OP_OPEN_SESSION) :
               cc' = [cc EXCEPT !.ss.call[t] = IF r = "OK" THEN "open_set" ELSE "idle", !.ss.camera = IF r = "OK" THEN TRUE ELSE @, !.ss.clean = @ /\ r = "OK"]
          /\ ptp' = PtpAfterCommand(ptp, PTP_OP_OPEN_SESSION)
       \/ /\ cc.ss.call[t] = "open_set"
          /\ ptp' = [ptp EXCEPT !.session_id = 1, !.session_open = TRUE]
          /\ cc' = [cc EXCEPT !.ss.call[t] = "idle"]
       \/ /\ cc.ss.call[t] = "idle"
          /\ ptp.session_open
          /\ cc' = [cc EXCEPT !.ss.call[t] = "close_cmd"]
          /\ UNCHANGED ptp
       \/ /\ cc.ss.call[t] = "close_cmd"
          /\ \E r \in PtpCommandOutcomes(ptp, PTP_OP_CLOSE_SESSION) :
               cc' = [cc EXCEPT !.ss.call[t] = "close_clear", !.ss.camera = IF r = "OK" THEN FALSE ELSE @, !.ss.clean = @ /\ r = "OK"]
          /\ ptp' = PtpAfterCommand(ptp, PTP_OP_CLOSE_SESSION)
       \/ /\ cc.ss.call[t] = "close_clear"
          /\ ptp' = [ptp EXCEPT !.session_open = FALSE, !.session_id = 0]
          /\ cc' = [cc EXCEPT !.ss.call[t] = "idle"]
    /\ UNCHANGED <<th, issued, storage, ev, last, after_scan, fsi, now, fs>>

NextSession == \E t \in Threads : SessionStep(t)

SpecSession == Init /\ [][NextSession]_vars

(* ------------------ the two mutexes, call by call ---------------------- *)

\* The calls that take the engine lock (ptp.lock) or the storage lock
\* (storage.lock): a PTP command, open_session and close_session, and
\* scan_cards, mount_card, unmount_card and format_card, by the threads; the
\* refresh work item, by the worker.  cc.lk[t] is where t's call stands: pc
\* "st_lock", "ptp_lock" and "flag_lock" are t at a mutex_lock (the step is
\* the lock being granted), "st_held", "ptp_held" and "flag_held" the
\* critical section that follows, "st_tail" the way out of a volume call
\* after its commands; left counts the commands the call has still to send.
\* Which path a volume call's body takes depends on the card records; here
\* every path is taken from every state.
\* The command each call sends.
CallOpCode(op) == CASE op = "open_session" -> PTP_OP_OPEN_SESSION [] op = "close_session" -> PTP_OP_CLOSE_SESSION [] op = "scan" -> PTP_OP_GET_STORAGE_IDS [] op = "refresh" -> PTP_OP_GET_STORAGE_INFO [] op = "format" -> PtpOpFormatStore [] OTHER -> PTP_OP_GET_DEVICE_INFO

\* A volume call that leaves by a return before its unlock.
StorageUnlockSkipped(s) == s

\* mutex_unlock(&storage->lock), at the unlock: label or the end of the body.
StorageUnlock(s) == [s EXCEPT !.lock = 0]

CallStep(t) ==
    /\ \/ /\ cc.lk[t].pc = "idle"
          /\ \E op \in (IF t = WorkId THEN {"refresh"} ELSE {"command", "open_session", "close_session", "scan", "mount", "unmount", "format"}) :
               cc' = [cc EXCEPT !.lk[t] = [op |-> op, pc |-> CASE op \in {"command", "open_session"} -> "ptp_lock" [] op = "close_session" -> "flag_lock" [] OTHER -> "st_lock", left |-> 1]]
          /\ UNCHANGED <<ptp, storage>>
       \/ /\ cc.lk[t].pc = "st_lock"
          /\ storage.lock = 0
          /\ storage' = [storage EXCEPT !.lock = t]
          /\ cc' = [cc EXCEPT !.lk[t].pc = "st_held"]
          /\ UNCHANGED ptp
       \/ /\ cc.lk[t].pc = "st_held"
          /\ \E n \in (CASE cc.lk[t].op \in {"mount", "unmount"} -> {0} [] cc.lk[t].op = "format" -> {0, 1} [] cc.lk[t].op = "scan" -> {1 + CANON_R5_MAX_STORAGE_CARDS} [] OTHER -> 0..CANON_R5_MAX_STORAGE_CARDS) :
               /\ cc' = [cc EXCEPT !.lk[t] = IF n = 0 THEN CcInit.lk[t] ELSE [@ EXCEPT !.pc = "ptp_lock", !.left = n]]
               /\ storage' = IF n = 0 THEN StorageUnlock(storage) ELSE storage
          /\ UNCHANGED ptp
       \/ /\ cc.lk[t].pc = "ptp_lock"
          /\ ptp.lock = 0
          /\ ptp' = [ptp EXCEPT !.lock = t]
          /\ cc' = [cc EXCEPT !.lk[t].pc = "ptp_held"]
          /\ UNCHANGED storage
       \/ /\ cc.lk[t].pc = "ptp_held"
          /\ \E r \in PtpCommandOutcomes(ptp, CallOpCode(cc.lk[t].op)) :
               cc' = [cc EXCEPT !.lk[t] = CASE cc.lk[t].op = "command" \/ (cc.lk[t].op = "open_session" /\ r # "OK") -> CcInit.lk[t]
                                            [] cc.lk[t].op \in {"open_session", "close_session"} -> [@ EXCEPT !.pc = "flag_lock", !.left = 0]
                                            [] cc.lk[t].left = 1 \/ (cc.lk[t].op = "scan" /\ cc.lk[t].left = 1 + CANON_R5_MAX_STORAGE_CARDS /\ r # "OK") -> [@ EXCEPT !.pc = "st_tail", !.left = 0]
                                            [] OTHER -> [@ EXCEPT !.pc = "ptp_lock", !.left = @ - 1]]
          /\ ptp' = [PtpAfterCommand(ptp, CallOpCode(cc.lk[t].op)) EXCEPT !.lock = 0]
          /\ UNCHANGED storage
       \/ /\ cc.lk[t].pc = "st_tail"
          /\ storage' = StorageUnlock(storage)
          /\ cc' = [cc EXCEPT !.lk[t] = CcInit.lk[t]]
          /\ UNCHANGED ptp
       \/ /\ cc.lk[t].pc = "flag_lock"
          /\ ptp.lock = 0
          /\ ptp' = [ptp EXCEPT !.lock = t]
          /\ cc' = [cc EXCEPT !.lk[t].pc = "flag_held"]
          /\ UNCHANGED storage
       \/ /\ cc.lk[t].pc = "flag_held"
          /\ ptp' = CASE cc.lk[t].op = "open_session" -> [ptp EXCEPT !.lock = 0, !.session_id = 1, !.session_open = TRUE]
                      [] cc.lk[t].left = 0 -> [ptp EXCEPT !.lock = 0, !.session_id = 0, !.session_open = FALSE]
                      [] OTHER -> [ptp EXCEPT !.lock = 0]
          /\ cc' = [cc EXCEPT !.lk[t] = IF cc.lk[t].op = "close_session" /\ cc.lk[t].left = 1 /\ ptp.session_open THEN [@ EXCEPT !.pc = "ptp_lock"] ELSE CcInit.lk[t]]
          /\ UNCHANGED storage
    /\ UNCHANGED <<th, issued, ev, last, after_scan, fsi, now, fs>>

NextCalls == \E t \in (Threads \cup {WorkId}) : CallStep(t)

SpecCalls == Init /\ [][NextCalls]_vars

Next ==
    \/ \E t \in Threads, code \in OpCodes, has_data \in BOOLEAN, args_ok \in BOOLEAN : CmdCall(t, code, has_data, args_ok)
    \/ \E t \in Threads, param_count \in {0 - 1, 6} : CmdCallCount(t, PTP_OP_GET_DEVICE_INFO, param_count)
    \/ \E t \in Threads : OpenCall(t)
    \/ \E t \in Threads : CloseCall(t)
    \/ \E t \in Threads : PtpLock(t)
    \/ \E t \in Threads : PtpBegin(t)
    \/ \E t \in Threads : PtpSendCmd(t)
    \/ \E t \in Threads : PtpSendDataHdr(t)
    \/ \E t \in Threads : PtpSendData(t)
    \/ \E t \in Threads : PtpRecv(t)
    \/ \E t \in Threads : OpenSet(t)
    \/ \E t \in Threads : CloseClear(t)

Spec == Init /\ [][Next]_vars

(* ------------------------------- claims -------------------------------- *)

\* Positions between sending the command container and the end of the
\* receive of its response, and positions holding the engine lock.
ExchangePcs == {"send_cmd", "send_data_hdr", "send_data", "recv"}

CriticalPcs == {"ptp_begin"} \cup ExchangePcs

BadFrame(c, tid) == c.len < PtpHeaderLen \/ c.type # PTP_CONTAINER_RESPONSE \/ c.trans_id # tid

\* C1 as claimed: the ids written into command containers are 1, 2, 3, ...
\* without end: the i-th issued id is i.
C1_IdsCountUpFromOne == \A i \in 1..Len(issued) : issued[i] = i

\* C1 up to the wrap of the counter: the first issued id is 1 and every
\* later one is its predecessor plus 1 in the counter's unsigned arithmetic
\* (modulo 2^width), whatever the interleaving of callers.
C1_IdsStepByOneModulo == \A i \in 1..Len(issued) : issued[i] = IF i = 1 THEN 1 ELSE (issued[i - 1] + 1) % Pow2(TransIdBits)

\* Ids have been issued past the wrap of the counter.
C1_Witness == \E i \in 2..Len(issued) : issued[i] = 0 /\ issued[i - 1] = Pow2(TransIdBits) - 1

C3_OneExchangeAtATime == (Cardinality({t \in Threads : th[t].pc \in ExchangePcs}) <= 1) /\ (\A t \in Threads : ((th[t].pc \in CriticalPcs) <=> (ptp.lock = t))) /\ (\A t \in Threads : ((th[t].pc = "ptp_lock" /\ (\A u \in Threads : th[u].pc \notin CriticalPcs)) => ENABLED PtpLock(t)))

\* One caller is inside an exchange while another waits for the lock.
C3_Witness == \E t, u \in Threads : th[t].pc = "recv" /\ th[u].pc = "ptp_lock"

\* C4: a received container that is short of a header, is not a response or
\* carries another transaction id makes the call return -EPROTO in that
\* step: no response code is stored, the lock is released and the command is
\* over, after that one receive.
C4_BadFramingIsEproto == [][\A t \in Threads : (th[t].pc = "recv" /\ th'[t] # th[t] /\ \E c \in Responses(th[t].trans_id) : (BadFrame(c, th[t].trans_id) /\ PtpRecvResp(t, c))) => (th'[t].ret = "EPROTO" /\ th'[t].rc = 0 /\ th'[t].pc \in {"done", "close_clear"} /\ th[t].recvs = 0 /\ ptp'.lock = 0 /\ issued' = issued)]_vars

\* A caller got -EPROTO and no response code.
C4_Witness == \E t \in Threads : th[t].pc = "done" /\ th[t].ret = "EPROTO" /\ th[t].rc = 0

\* C5: a mount_card on a valid slot whose status is not INSERTED, and a
\* format_card on a valid slot whose status is not MOUNTED, return -ENODEV
\* and leave every slot record, the active-slot designation and the engine
\* (its transaction counter) unchanged, having called no protocol command.
C5_WrongStatusIsEnodev == [][\A slot \in ValidSlots : ((MountCard("fg", slot, TRUE) /\ storage.cards[slot].status # CANON_R5_STORAGE_STATUS_INSERTED) => (last'.ret = "ENODEV" /\ last'.cmds = 0 /\ storage' = storage /\ ptp' = ptp /\ issued' = issued)) /\ ((FormatCard(slot, TRUE) /\ storage.cards[slot].status # CANON_R5_STORAGE_STATUS_MOUNTED) => (last'.ret = "ENODEV" /\ last'.cmds = 0 /\ storage' = storage /\ ptp' = ptp /\ issued' = issued))]_vars

\* A format of an inserted, not mounted, card was refused with the session
\* open.
C5_Witness == last.op = "format" /\ last.ret = "ENODEV" /\ canon_r5_storage_slot_valid(last.slot) /\ storage.cards[last.slot].status = CANON_R5_STORAGE_STATUS_INSERTED /\ ptp.session_open

\* C6: a mount_card on a valid slot whose status is INSERTED returns 0 and
\* makes the slot MOUNTED; the slot becomes the active one exactly when no
\* slot was active before, otherwise the active slot stays; the other slots'
\* records are untouched.
C6_MountInserted == [][\A slot \in ValidSlots : (MountCard("fg", slot, TRUE) /\ storage.cards[slot].status = CANON_R5_STORAGE_STATUS_INSERTED) => ((last'.ret = "OK") /\ (storage'.cards[slot].status = CANON_R5_STORAGE_STATUS_MOUNTED) /\ (storage'.active_card = (IF storage.active_card \in ValidSlots THEN storage.active_card ELSE slot)) /\ (\A i \in ValidSlots \ {slot} : storage'.cards[i] = storage.cards[i]))]_vars

\* A mount succeeded on one slot while another slot was, and stays, active.
C6_Witness == last.op = "mount" /\ last.ret = "OK" /\ storage.active_card \in ValidSlots \ {last.slot} /\ storage.cards[last.slot].status = CANON_R5_STORAGE_STATUS_MOUNTED

\* C7: an unmount_card on a valid slot returns success from any status and
\* leaves the slot's record empty (status EMPTY, no capacity); when the
\* return before it was an unmount of the same slot, it changes nothing in
\* the storage device or the engine.
C7_UnmountTwice == [][\A slot \in ValidSlots : UnmountCard("fg", slot, TRUE) => ((last'.ret = "OK") /\ (storage'.cards[slot].status = CANON_R5_STORAGE_STATUS_EMPTY) /\ (storage'.cards[slot].total_capacity = 0) /\ (storage'.cards[slot].free_space = 0) /\ ((last.op = "unmount" /\ last.slot = slot /\ last.ret = "OK") => (storage' = storage /\ ptp' = ptp)))]_vars

\* The same valid slot has been unmounted twice in a row.
C7_Witness == last.op = "unmount" /\ last.again /\ last.ret = "OK" /\ canon_r5_storage_slot_valid(last.slot)

\* C8 as claimed: once a scan has reported two volumes, the mount_card(0)
\* that follows succeeds, and a statfs after it stores the block counts of
\* slot 0: its total capacity and its free space divided by the block size.
C8_ScanMountStatfs == (after_scan # "mount0_fail") /\ ((last.op = "statfs" /\ after_scan = "mount0_ok") => (last.f_blocks = storage.cards[0].total_capacity \div PAGE_SIZE /\ last.f_bfree = storage.cards[0].free_space \div PAGE_SIZE))

\* C9 as claimed: a card-event work item queued for a valid slot with an
\* insertion or a removal eventually finishes, the storage lock free, with
\* the slot MOUNTED after an insertion and empty after a removal.
C9_CardEventFinishes == (ev.pc = "lock" /\ canon_r5_storage_slot_valid(ev.slot) /\ ev.status \in {CANON_R5_STORAGE_STATUS_INSERTED, CANON_R5_STORAGE_STATUS_EMPTY}) ~> (ev.pc = "done" /\ storage.lock = 0 /\ canon_r5_storage_slot_valid(ev.slot) /\ storage.cards[ev.slot].status = (IF ev.status = CANON_R5_STORAGE_STATUS_INSERTED THEN CANON_R5_STORAGE_STATUS_MOUNTED ELSE CANON_R5_STORAGE_STATUS_EMPTY))

\* C9, what the work item does instead: once it is at its nested call it holds
\* the storage lock and stays there for good.
C9_WorkStuckInNestedCall == [][ev.pc \in {"mount", "unmount"} => (ev'.pc = ev.pc /\ storage'.lock = WorkId)]_vars

\* The objects listed in the tree with cached = true, and the objects on the
\* recency list.
CachedInTree == {h \in fsi.file_tree : fsi.obj[h].cached}

OnLruList == {fsi.lru_list[i] : i \in 1..Len(fsi.lru_list)}

\* C10 as claimed: in every reachable state the objects listed in the tree
\* with cached = true are exactly the objects on the recency list.
C10_TreeAndLruAgree == CachedInTree = OnLruList

\* C11: once canon_r5_ptp_get_object_info has succeeded for handle h (and h
\* has not been deleted since), canon_r5_storage_get_file(h) returns a
\* non-null object whose object_handle is h.
C11_FetchedIsFound == (fs.op = "get_file" /\ fs.h \in fs.fetched) => (fs.file_obj = fs.h)

\* C12: after any sequence of cache() calls, interleaved with cleanup runs
\* and deletes, the cache's byte counter (cache.total_size) is at most the
\* configured budget (cache.max_size).
C12_CacheWithinBudget == fsi.total_size <= fsi.max_size

\* C13: a read, from offset 0 and of the object's size, of the object that
\* canon_r5_storage_write_file returned gives back exactly the bytes that
\* were written: same length, same content.
C13_ReadGivesWhatWasWritten == (fs.op = "read_file" /\ fs.ret = "OK") => (fs.data = fs.written)

\* C14: over a listing made of repeated canon_r5_fs_readdir calls on one
\* directory context, each remote entry is emitted once, not again by a
\* later call (so that the listing comes to a call that emits nothing).
C14_EachEntryEmittedOnce == \A h \in Handles : fs.emitted[h] <= 1

\* C15: the node canon_r5_fs_lookup makes for a name that is in the
\* directory's listing is bound to the object of the listed handle
\* (file_obj is that object, not NULL), and a read on such a node does not
\* fail with -ENOENT.
C15_LookupBindsObject == ((fs.op \in {"lookup", "read"} /\ fs.found) => (fs.file_obj = fs.h)) /\ (fs.op = "read" => fs.ret # "ENOENT")

C17_CloseAlwaysClears == [][\A t \in Threads : (((CloseCall(t) /\ ~ptp.session_open) => (th'[t] = Done("OK", 0) /\ ptp' = ptp /\ issued' = issued)) /\ (CloseClear(t) => (th'[t].pc = "done" /\ th'[t].ret = "OK" /\ ~ptp'.session_open /\ ptp'.session_id = 0)) /\ ((th[t].op = "close" /\ th[t].pc # "close_clear" /\ th'[t] # th[t]) => (th'[t].op = "close")))]_vars

\* The close-session command of a close has failed in the transport, and
\* the close is at its last step with the session still recorded as open.
C17_Witness == \E t \in Threads : th[t].pc = "close_clear" /\ th[t].ret \in TransportErrors /\ ptp.lock = 0 /\ ptp.session_open

\* C18: canon_r5_ptp_open_session sends the open-session command with the
\* single parameter 1; it goes on to record the session only from the
\* receive of that one command, and the recording step sets session_open =
\* true and session_id = 1 and returns 0; when the command fails the call
\* returns the error (not 0) and leaves session_open and session_id as they
\* were.
C18_OpenRecordsSessionOne == [][\A t \in Threads : ((th[t].op = "open" /\ th'[t] # th[t]) => ((th[t].pc = "send_cmd" => (th[t].code = PTP_OP_OPEN_SESSION /\ th[t].params = <<1>>)) /\ (th'[t].pc = "open_set" => (th[t].pc = "recv" /\ th[t].sends = 1 /\ th[t].recvs = 0)) /\ (th[t].pc = "open_set" => (ptp'.session_open /\ ptp'.session_id = 1 /\ th'[t].pc = "done" /\ th'[t].ret = "OK")) /\ ((th'[t].pc = "done" /\ th[t].pc # "open_set") => (th'[t].ret \notin {"OK", "none"} /\ ptp'.session_open = ptp.session_open /\ ptp'.session_id = ptp.session_id))))]_vars

\* An open has failed on a closed session, and another has opened it.
C18_Witness == \E t, u \in Threads : th[t].pc = "done" /\ th[t].ret = "EIO" /\ th[u].pc = "done" /\ th[u].ret = "OK" /\ ptp.session_open /\ ptp.session_id = 1

\* C19: when a bulk send or the bulk receive inside canon_r5_ptp_command
\* fails with error e, the command returns e in that step: the caller is out
\* of the exchange (no further send or receive), the engine lock is free
\* and no further transaction id has been taken.
C19_TransportErrorSurfaces == [][\A t \in Threads : \A e \in TransportErrors : ((PtpSend(t, "send_cmd", "recv", e) \/ PtpSend(t, "send_data_hdr", "send_data", e) \/ PtpSend(t, "send_data", "recv", e) \/ PtpRecvFail(t, e)) => (th'[t].ret = e /\ th'[t].pc \in {"done", "close_clear"} /\ th'[t].sends = 0 /\ th'[t].recvs = 0 /\ ptp'.lock = 0 /\ ptp'.transaction_id = ptp.transaction_id /\ issued' = issued))]_vars

\* A direct caller's command has returned a timeout.
C19_Witness == \E t \in Threads : th[t].pc = "done" /\ th[t].ret = "ETIMEDOUT" /\ th[t].rc = 0 /\ ptp.lock # t

\* Response codes the claim names as having outcomes of their own.
TranslatedCodes == {PTP_RC_STORAGE_FULL, PTP_RC_DEVICE_BUSY}

\* C20: commands that ended on well-framed responses with different codes
\* other than OK, one of them storage-full or busy, returned different
\* outcomes to their callers: such a code's outcome is its own, not the one
\* of another code and not the generic failure of a general error.
C20_CodesHaveOwnOutcomes == \A t, u \in Threads : ((th[t].pc = "done" /\ th[u].pc = "done" /\ th[t].rc \in TranslatedCodes /\ th[u].rc \in TranslatedCodes \cup {PTP_RC_GENERAL_ERROR} /\ th[t].rc # th[u].rc) => (th[t].ret # th[u].ret))

\* C21: every operation that reads the volume array or the active slot
\* holds the storage lock for the whole access, so none of its reads is
\* made while another operation is in the middle of a change: no step of
\* canon_r5_fs_statfs is taken while canon_r5_storage_unmount_card is
\* between its first and its last store.
C21_ReadsSeeNoRecordInChange == [][StatfsStep => (cc.um.pc \notin {"memset", "active"})]_vars

\* The snapshot such a read produces: a capacity taken before the unmount's
\* memset with a free space taken after it.
C21_TornSnapshot == cc.statfs.pc = "done" /\ cc.statfs.f_blocks > 0 /\ cc.statfs.f_bfree = 0

\* C22: the handle tree and the recency list are only ever accessed under
\* one and the same exclusive lock, so the cleanup work is never inside its
\* traversal of the recency list while a delete is inside the section in
\* which it erases an object from the tree and unlinks it from the list.
C22_CleanupExcludesDelete == ~(cc.cw.pc = "walk" /\ cc.dl.pc \in {"rb_erase", "list_del", "spin_unlock"})

\* Where the overlap leads: the delete unlinks the entry the traversal saved
\* as its next one, and the cursor then rests on an entry that is linked to
\* itself and on no list.
C22_CursorOffTheList == cc.cw.pc = "walk" /\ cc.cw.file # 0 /\ ListNext(fsi.lru_list, cc.cw.file) = cc.cw.file

\* C23: device detach waits for the background work to have finished or
\* been cancelled and then eventually returns, and once it has returned
\* every slot is EMPTY, no slot is active and no background work is running:
\* a canon_r5_storage_cleanup call that has started leads to that state.
C23_DetachReturnsWithAllEmpty == (cc.dt.pc # "idle") ~> (cc.dt.pc = "done" /\ storage.active_card = 0 - 1 /\ (\A i \in ValidSlots : storage.cards[i].status = CANON_R5_STORAGE_STATUS_EMPTY) /\ ev.pc \in {"idle", "done", "lock"})

\* C24: canon_r5_storage_read_file on a cached object with offset below
\* cache_size returns 0 with the min(size, cache_size - offset) bytes of the
\* cached payload that start at offset, adds one to cache_hits and sends no
\* command: the engine, its transaction counter included, is as before.
C24_CachedReadServedFromCache == [][(cc.rd.file.cached /\ cc.rd.offset < Len(cc.rd.file.cache_data) /\ ReadFileOf(cc.rd.file, cc.rd.size, cc.rd.offset)) => (cc'.rd.ret = "OK" /\ cc'.rd.data = [i \in 1..Min(cc.rd.size, Len(cc.rd.file.cache_data) - cc.rd.offset) |-> cc.rd.file.cache_data[cc.rd.offset + i]] /\ cc'.stats = [cc.stats EXCEPT !.cache_hits = @ + 1] /\ ptp' = ptp)]_vars

\* A read of one block at offset 1 of the cached payload <<0, 0x55>> has
\* returned the later block, with a session open.
C24_Witness == cc.rd.pc = "done" /\ cc.rd.ret = "OK" /\ cc.rd.data = <<DataPattern>> /\ cc.stats.cache_hits = 1 /\ cc.stats.cache_misses = 0 /\ ptp.session_open
\* C25: whenever the active volume is write-protected,
\* canon_r5_storage_write_file fails, sends no send-object command and
\* creates no object: the engine and the record of the last object written
\* are as before the call.
C25_ProtectedVolumeRejectsWrite == [][\A bytes \in {c \in Contents : Len(c) <= MaxPayload}, alloc_ok \in BOOLEAN : ((storage.active_card >= 0 /\ storage.cards[storage.active_card].status = CANON_R5_STORAGE_STATUS_WRITE_PROTECTED /\ WriteFile(bytes, TRUE, alloc_ok)) => (fs'.ret # "OK" /\ ptp' = ptp /\ fs'.new_file = fs.new_file /\ fs'.written = fs.written))]_vars

\* C26: in every reachable state the reference count of each object is 1
\* if the tree lists it, else 0, plus the number of live inodes bound to it
\* (so a delete has released the tree's reference, and an object with no
\* holder is gone).
C26_RefCountIsIndexPlusNodes == \A h \in Handles : fsi.obj[h].ref_count = (IF h \in fsi.file_tree THEN 1 ELSE 0) + cc.nodes[h]

\* C27: canon_r5_storage_reset_stats is atomic with respect to concurrent
\* updates: no counter update computed from a value loaded before the reset
\* overwrites the reset, so each store of a write's update leaves the counter
\* one above what it held just before the store.
C27_NoUpdateOverwritesReset == [][((cc.up.pc = "files_written" /\ cc'.up.pc = "load_bytes") => (cc'.stats.files_written = cc.stats.files_written + 1)) /\ ((cc.up.pc = "bytes_written" /\ cc'.up.pc = "idle") => (cc'.stats.bytes_written = cc.stats.bytes_written + 1))]_vars

\* A snapshot that mixes values from before and after a reset: every write
\* is of one block, and the copy shows fewer files written than blocks.
C27_MixedSnapshot == cc.up.pc = "idle" /\ cc.snap.files_written < cc.snap.bytes_written

\* C28: canon_r5_ptp_command rejects a parameter count outside 0..5 with
\* -EINVAL before any transport access and without consuming a transaction
\* id, as it does for a null device: such a call returns at once, the
\* engine untouched.
C28_BadParamCountRejected == [][\A t \in Threads, code \in OpCodes, param_count \in {0 - 1, 6} : (CmdCallCount(t, code, param_count) => (th'[t] = Done("EINVAL", 0) /\ ptp' = ptp))]_vars

\* C29: a transaction id is never reused while the device stays attached:
\* with the counter w bits wide, no two canon_r5_ptp_command calls since
\* attach have sent the same id, however many calls there were.
C29_NoTransactionIdReused == \A i \in 1..Len(issued) : \A j \in 1..Len(issued) : (i # j => issued[i] # issued[j])

\* C30: canon_r5_storage_unmount_card(slot) leaves the slot's record as it
\* was at device attach (status EMPTY, slot_id equal to slot, capacity and
\* free space zero), clears the active slot if and only if it was this
\* slot, and leaves the other slots' records as they were.
C30_UnmountRestoresAttachDefaults == [][\A slot \in ValidSlots : (UnmountCard("fg", slot, TRUE) => (storage'.cards[slot] = StorageInit.cards[slot] /\ storage'.active_card = (IF storage.active_card = slot THEN 0 - 1 ELSE storage.active_card) /\ (\A o \in ValidSlots \ {slot} : storage'.cards[o] = storage.cards[o])))]_vars


\* C31: a canon_r5_fs_readdir call that starts at position 0 emits "." and
\* ".." ahead of every remote entry (with room for r entries, min(r, 2) of
\* the entries it emits are the dot entries), and when the camera reports
\* no object under the directory it emits no remote entry at all.
C31_DotsFirstAndAloneOnEmptyCard == [][\A has_storage \in BOOLEAN, room \in 0..(MaxHandles + 2), reported \in 0..MaxHandles : ((fs.pos = 0 /\ FsReaddir(has_storage, room, reported)) => ((fs'.pos - Cardinality({h \in Handles : fs'.emitted[h] # fs.emitted[h]}) = Min(room, 2)) /\ (reported = 0 => fs'.emitted = fs.emitted)))]_vars

\* The part about the order alone, whatever the camera reports.
C31_DotsFirst == [][\A has_storage \in BOOLEAN, room \in 0..(MaxHandles + 2), reported \in 0..MaxHandles : ((fs.pos = 0 /\ FsReaddir(has_storage, room, reported)) => (fs'.pos - Cardinality({h \in Handles : fs'.emitted[h] # fs.emitted[h]}) = Min(room, 2)))]_vars


\* C32: canon_r5_fs_read and canon_r5_fs_unlink on a node that has no
\* backing object return -ENOENT, send no command and change nothing: the
\* engine and everything but the record of the call's return are as before,
\* and so are the node and the listing position held in that record.
C32_UnboundNodeIsEnoent == [][(fs.file_obj = 0 /\ (FsUnlink \/ \E alloc_ok \in BOOLEAN : FsRead(alloc_ok))) => (fs'.ret = "ENOENT" /\ fs' = [fs EXCEPT !.op = fs'.op, !.ret = "ENOENT"] /\ ptp' = ptp /\ issued' = issued /\ fsi' = fsi /\ storage' = storage /\ cc' = cc)]_vars

\* An unlink of a looked-up node with no object has returned -ENOENT, with
\* a session open and a card mounted.
C32_Witness == fs.op = "unlink" /\ fs.found /\ fs.file_obj = 0 /\ fs.ret = "ENOENT" /\ ptp.session_open /\ storage.active_card = 0


\* C33: in every state canon_r5_fs_mkdir and canon_r5_fs_rmdir return
\* -EPERM, send no command and change nothing: the engine and everything
\* but the record of the call's return are as before.
C33_MkdirRmdirAreEperm == [][\A op \in {"mkdir", "rmdir"} : (FsMkdir(op) => (fs'.ret = "EPERM" /\ fs' = [fs EXCEPT !.op = op, !.ret = "EPERM"] /\ ptp' = ptp /\ issued' = issued /\ fsi' = fsi /\ storage' = storage /\ cc' = cc))]_vars

\* An rmdir has returned -EPERM with a session open and a card mounted,
\* after a lookup that made a node.
C33_Witness == fs.op = "rmdir" /\ fs.ret = "EPERM" /\ fs.found /\ ptp.session_open /\ storage.active_card = 0


\* The entries the cleanup is to free at this moment: on the recency list,
\* cached, and modified before the staleness window; and the cached bytes
\* of those among the handles 1..n.
StaleEntries == {h \in Handles : (\E i \in 1..Len(fsi.lru_list) : fsi.lru_list[i] = h) /\ fsi.obj[h].cached /\ fsi.obj[h].modification_time < now - CANON_R5_CACHE_TIMEOUT}

RECURSIVE StaleBytes(_)
StaleBytes(n) == IF n = 0 THEN 0 ELSE (IF n \in StaleEntries THEN fsi.obj[n].cache_size ELSE 0) + StaleBytes(n - 1)

\* C34: a run of canon_r5_storage_cache_cleanup_work frees the payload of
\* every stale entry of the recency list and clears its cached flag, takes
\* exactly the cached sizes of those entries off cache.total_size, and
\* leaves the other objects and the tree as they were.
C34_CleanupTakesFreedBytesOffTotal == [][CleanupWork => ((\A h \in StaleEntries : (~fsi'.obj[h].cached /\ ~fsi'.obj[h].has_data)) /\ (\A h \in Handles \ StaleEntries : fsi'.obj[h] = fsi.obj[h]) /\ (fsi'.file_tree = fsi.file_tree) /\ (fsi'.total_size = fsi.total_size - StaleBytes(MaxHandles)))]_vars

\* C34 without the counter: what is freed and what is left alone.
C34_CleanupFreesStaleOnly == [][CleanupWork => ((\A h \in StaleEntries : (~fsi'.obj[h].cached /\ ~fsi'.obj[h].has_data)) /\ (\A h \in Handles \ StaleEntries : fsi'.obj[h] = fsi.obj[h]) /\ (fsi'.file_tree = fsi.file_tree))]_vars


\* C35: canon_r5_storage_read_file on an object that is not served from the
\* cache sends one get-object-data command (one transaction id is used when
\* the session is open, none when the engine refuses the command); when it
\* returns 0, cache_misses and files_read are one higher and bytes_read is
\* higher by the number of bytes returned, else the statistics are as they
\* were; the objects, their cached flags and buffers, and the recency list
\* are unchanged either way.
C35_MissReadsThroughAndCounts == [][(~(cc.rd.file.cached /\ cc.rd.file.cache_data # << >> /\ cc.rd.offset < Len(cc.rd.file.cache_data)) /\ ReadFileOf(cc.rd.file, cc.rd.size, cc.rd.offset)) => ((ptp' = IF ptp.session_open THEN [ptp EXCEPT !.transaction_id = TransIdNext(@)] ELSE ptp) /\ (cc'.rd.ret = "OK" => (cc'.stats = [cc.stats EXCEPT !.cache_misses = @ + 1, !.files_read = @ + 1, !.bytes_read = @ + Len(cc'.rd.data)])) /\ (cc'.rd.ret # "OK" => (cc'.stats = cc.stats /\ cc'.rd.ret \in PtpReturns \ {"OK"})) /\ fsi' = fsi)]_vars

\* After one read that missed and succeeded, a second one has missed and
\* failed: the counters show the first one only.
C35_Witness == cc.rd.pc = "done" /\ cc.rd.ret \in TransportErrors /\ cc.stats.cache_misses = 1 /\ cc.stats.files_read = 1 /\ cc.stats.bytes_read > 0 /\ cc.stats.cache_hits = 0


\* The active-slot designation is none, or a valid slot that is MOUNTED.
ActiveSlotOk(s) == s.active_card = 0 - 1 \/ (s.active_card \in ValidSlots /\ s.cards[s.active_card].status = CANON_R5_STORAGE_STATUS_MOUNTED)

\* C37: the active-slot designation is -1 or the index of a valid slot
\* whose status is MOUNTED, and no step of mount, unmount, a card event or
\* detach takes it from such a state to one where it points at a slot that
\* is not mounted.  Left aside are the direct write of a card record by a
\* test's setup, and the moment in which the card-event work, the storage
\* lock still held, has recorded an insertion or a removal and is about to
\* mount or unmount the slot.
C37_ActiveSlotIsMounted == [][(ActiveSlotOk(storage) /\ ~(\E slot \in ValidSlots : TestSetupCard(slot))) => (ActiveSlotOk(storage') \/ (storage'.lock = WorkId /\ ev'.pc \in {"mount", "unmount"}))]_vars

\* The same for the foreground volume calls alone (scan, mount, unmount,
\* format), with no card event.
C37_ForegroundKeepsActiveSlot == [][(ActiveSlotOk(storage) /\ ~(\E slot \in ValidSlots : TestSetupCard(slot))) => ActiveSlotOk(storage')]_vars


\* C39: whenever canon_r5_storage_list_directory succeeds, the value it
\* returns is the number of entries it put on the caller's list, also when
\* get_object_info or the allocation failed for some of the handles.
C39_ReturnCountsEntries == \A has_storage \in BOOLEAN : \A l \in canon_r5_storage_list_directory(has_storage) : (l.ret = "OK" => l.count = Len(l.entries))

\* The same when every handle's entry could be built.
C39_FullListingIsCounted == \A has_storage \in BOOLEAN : \A l \in canon_r5_storage_list_directory(has_storage) : ((l.ret = "OK" /\ l.entries = DirListing([h \in Handles |-> TRUE])) => l.count = Len(l.entries))


\* C40: an object is not released while a canon_r5_fs_read or
\* canon_r5_fs_unlink that found it in the inode is still to use it: a
\* concurrent canon_r5_fs_write that rebinds the inode does not bring the
\* old object's reference count to zero before that call is through.
C40_NoReleaseWhileInUse == (cc.nd.rd.pc = "use") => (cc.nd.rd.obj \notin cc.nd.freed /\ fsi.obj[cc.nd.rd.obj].ref_count > 0)

\* Where it ends: the read goes on with the released object after the inode
\* has been given the new one.
C40_UseAfterRebind == cc.nd.rd.pc = "use" /\ cc.nd.rd.obj \in cc.nd.freed /\ cc.nd.wr.pc = "idle" /\ cc.nd.file_obj # cc.nd.rd.obj


\* C36: when every canon_r5_ptp_open_session and canon_r5_ptp_close_session
\* call has returned, session_open is true exactly when the last session
\* command the device accepted was open-session.
C36_FlagAgreesWithDevice == (\A t \in Threads : cc.ss.call[t] = "idle") => (ptp.session_open <=> cc.ss.camera)

\* The disagreement without any failed command: all calls have returned,
\* every session command was answered with OK, the device's session is
\* open and session_open is false.
C36_ClearedAfterReopen == (\A t \in Threads : cc.ss.call[t] = "idle") /\ cc.ss.clean /\ cc.ss.camera /\ ~ptp.session_open


\* C38: the calls that take the engine lock and the storage lock cannot
\* block one another for good and leave no lock behind.  A call that has
\* returned holds neither lock; whoever holds the engine lock is inside an
\* exchange or a flag update, so never at the storage lock's mutex_lock
\* (the storage lock is the outer one); and a call in progress can take
\* its next step, or waits for a lock whose holder can take its own, or
\* waits for the storage lock whose holder waits for the engine lock whose
\* holder can.
C38_NoDeadlockNoLockLeft ==
    /\ \A t \in (Threads \cup {WorkId}) : (cc.lk[t].pc = "idle" => (ptp.lock # t /\ storage.lock # t))
    /\ (ptp.lock # 0 => cc.lk[ptp.lock].pc \in {"ptp_held", "flag_held"})
    /\ (storage.lock # 0 => cc.lk[storage.lock].pc \in {"st_held", "st_tail", "ptp_lock", "ptp_held"})
    /\ \A t \in (Threads \cup {WorkId}) : (cc.lk[t].pc # "idle" =>
          \/ ENABLED CallStep(t)
          \/ (cc.lk[t].pc \in {"ptp_lock", "flag_lock"} /\ ptp.lock # 0 /\ ENABLED CallStep(ptp.lock))
          \/ (cc.lk[t].pc = "st_lock" /\ storage.lock # 0 /\ (ENABLED CallStep(storage.lock) \/ (ptp.lock # 0 /\ ENABLED CallStep(ptp.lock)))))

\* Every caller is inside a call and all but one of them wait: the worker
\* holds the storage lock and waits for the engine lock, a thread holds the
\* engine lock, another waits for the storage lock.
C38_Witness == cc.lk[WorkId].pc = "ptp_lock" /\ storage.lock = WorkId /\ ptp.lock \in Threads /\ (\E t \in Threads : cc.lk[t].pc = "st_lock") /\ (\A t \in (Threads \cup {WorkId}) : cc.lk[t].pc # "idle")

====
